---------------------------- MODULE Spec2Model ----------------------------
(***************************************************************************)
(* Model of the PDCv2 host applications (hostApps/python):                 *)
(*   - the ZPP reducer PDC_ZPP (modules/h5Reader.py),                      *)
(*   - the result rendezvous h5Reader.getLastH5 / waitForNewFile and the   *)
(*     scripts' waitForH5File (modules/h5Reader.py, the measurement        *)
(*     scripts),                                                           *)
(*   - the command sessions of the scripts (the sequence of commands each  *)
(*     script sends through the ssh client, validPdcCfg, setupFSM).        *)
(* Three specifications share the module: SpecZpp, SpecRdv (FairRdv with   *)
(* fairness) and SpecSession.                                              *)
(***************************************************************************)
EXTENDS Integers, Sequences, FiniteSets, TLC

VARIABLES
    \* --- PDC_ZPP object (h5Reader.py:58-139)
    zpp,        \* the counters and derived values of one PDC_ZPP object
    zpc,        \* "new" after __init__/setItem, "done" after process() returned,
                \* "raised" after process() raised an exception
    zexc,       \* the exception process() raised, "none" otherwise
    csv,        \* the row zppPlotter.saveData wrote for the object, NoRow before
    \* --- result rendezvous (h5Reader.py:27, 144-284; waitForH5File of the scripts)
    dir,        \* the files of the watched directory, newest first (ls -1t)
    size,       \* size[p] = 0 for an empty file, 1 for a file with content
    parsedH5,   \* the process-wide list of the paths already returned
    db,         \* the current h5Reader object: hfFile, h5 (handle open), deleteAfter
    w,          \* the wait in progress or just ended: kind, st, timeout
    elapsed,    \* seconds since the wait in progress started
    retLog,     \* history: every path getLastH5 has returned, in order
    skipped,    \* history: a poll passed over a ready file because it was in parsedH5
    \* --- command session of one script (the scripts of hostApps/python)
    script,     \* the script that runs
    pc,         \* the index in Programs[script] of the next call
    sent,       \* every command sent through the ssh client, in order
    run,        \* "running"; "ending" once the script is over (sys.exit(), an
                \* uncaught exception or its last line); "ended" after the destructors
    cause,      \* why the script is over, "none" while it runs
    icp,        \* initCtlPdcFromClient: nPdcMax and pdcEnUser; history: pwrGood,
                \* the mask "ctlCfg -P" answered to checkPowerGood, -1 before
    zynq,       \* zynqDataTransfer: used, and dataReaderPidLocal is set (local)
    status,     \* the output of the status read of validPdcCfg, NoOutput before
    validAt,    \* history: Len(sent) when validPdcCfg returned normally, -1 before
    zppData,    \* the arguments of getZppOptimalPeriod: allPdcsZppData (the
                \* measurements zppDataForOptimalPrd) and nSpad
    zppPrd,     \* the period getZppOptimalPeriod returned
    sweepLog,   \* history: the calls of setZppModule, measCntRate,
                \* getZppOptimalPeriod and zp.newData the script has made, with
                \* the pattern or channel (ch) and the time in seconds (t) of each
    \* --- one call of setPdcTimeReg (pdcHelper.py:151-159)
    timeArgs,   \* the arguments hold, rech and flag of the call
    REG,        \* the value the call returned, -1 before it returns
    \* --- one packing of a register word (getDsumOnExternal.py:138-270)
    packArgs,   \* the register (reg) and the values of its fields (vals), in
                \* the order the source ORs them
    regWord,    \* the word computed, -1 before it is
    \* --- tcrPlotter of getSpadTcrUsingFlag.py (lines 259-470)
    tp,         \* pdcValid, spadTcr, spadPop, spadEn and spadCumulHis of the
                \* object, the number n of calls of newData made and the
                \* arguments of the last one; history: given[iPdc][v], how many
                \* times the valid average v was passed for PDC iPdc
    \* --- one call of a routine that builds commands (zynqCtlPdcRoutines.py,
    \*     pdcHelper.py)
    callArgs,   \* the routine (f) and its arguments (args)
    callOut,    \* the commands the call sent (cmds), whether it ended in
                \* sys.exit() (exits), and whether it was made (done)
    \* --- the packet settings of initCtlPdcFromClient (zynqCtlPdcRoutines.py:28-32,
    \*     58-59, 123-154)
    pack        \* PACK_A and PACK_B (A, B), the number n of calls of
                \* setCtlPacket made, the arguments of the last one (last), the
                \* settings before it (old) and the commands it sent (cmds)

zvars == <<zpp, zpc, zexc, csv>>
rvars == <<dir, size, parsedH5, db, w, elapsed, retLog, skipped>>
svars == <<script, pc, sent, run, cause, icp, zynq, status, validAt, zppData, zppPrd,
          sweepLog>>
cvars == <<callArgs, callOut, pack>>
tvars == <<timeArgs, REG, packArgs, regWord, tp, callArgs, callOut, pack>>

vars == <<zpp, zpc, zexc, csv, dir, size, parsedH5, db, w, elapsed, retLog, skipped,
          script, pc, sent, run, cause, icp, zynq, status, validAt, zppData, zppPrd,
          sweepLog, timeArgs, REG, packArgs, regWord, tp, callArgs, callOut, pack>>

--------------------------------------------------------------------------
(* Bounds *)

\* largest counter value setItem stores in the model
MaxCount == 3

\* largest timeout, in seconds, a wait is called with in the model
MaxTimeout == 2

\* number of SPADs the sweep of a session visits (icp.nSpad is 64)
MaxSpad == 2

\* largest number of delay lines ioDelaySet reports in a session
MaxLines == 1

\* largest number of result files waiting in the directory in a session
MaxBacklog == 1

\* largest number of PDC measurements getZppOptimalPeriod is given in the model
MaxPdc == 3

--------------------------------------------------------------------------
(* Exact rational arithmetic standing for the Python floats.  A value is   *)
(* [n |-> numerator, d |-> denominator] with d > 0.                        *)

Abs(x) == IF x < 0 THEN -x ELSE x

RECURSIVE GCD(_, _)
GCD(a, b) == IF b = 0 THEN a ELSE GCD(b, a % b)

Rat(n, d) ==
    LET g == GCD(Abs(n), d)
    IN  IF g = 0 THEN [n |-> 0, d |-> 1] ELSE [n |-> n \div g, d |-> d \div g]

RatInt(k) == [n |-> k, d |-> 1]

\* a > b, cross-multiplied after cancelling the common factor of the denominators
RatGt(a, b) ==
    LET g == GCD(a.d, b.d)
    IN  a.n * (b.d \div g) > b.n * (a.d \div g)

RatSub(a, b) ==
    LET g == GCD(a.d, b.d)
        l == (a.d \div g) * b.d
    IN  Rat(a.n * (l \div a.d) - b.n * (l \div b.d), l)

RatAdd(a, b) ==
    LET g == GCD(a.d, b.d)
        l == (a.d \div g) * b.d
    IN  Rat(a.n * (l \div a.d) + b.n * (l \div b.d), l)

RatMul(a, b) ==
    LET g1 == GCD(Abs(a.n), b.d)
        g2 == GCD(Abs(b.n), a.d)
    IN  IF a.n = 0 \/ b.n = 0 THEN RatInt(0)
        ELSE Rat((a.n \div g1) * (b.n \div g2), (a.d \div g2) * (b.d \div g1))

\* a / b for b > 0
RatDiv(a, b) ==
    LET g1 == GCD(Abs(a.n), b.n)
        g2 == GCD(a.d, b.d)
    IN  IF a.n = 0 THEN RatInt(0)
        ELSE Rat((a.n \div g1) * (b.d \div g2), (a.d \div g2) * (b.n \div g1))

--------------------------------------------------------------------------
(* ZPP reducer *)

\* the value every counter and derived value starts with, "not available"
Sentinel == RatInt(-1)

\* 1/10e-9: dividing by (10e-9*PRD) multiplies by ClkHz/PRD
ClkHz == 100000000

\* math.log of the integers 1..8, in units of 1/LnScale (rounded to nearest)
LnScale == 1000000
LnTable == <<0, 693147, 1098612, 1386294, 1609438, 1791759, 1945910, 2079442>>

\* -1*math.log(NUL/BIN) in units of 1/LnScale, for NUL > 0 and BIN > 0
NegLog(NUL, BIN) == LnTable[BIN] - LnTable[NUL]

\* the items of PDC_ZPP_ITEM that process() reads
ZppItems == {"BIN", "NUL", "PRD", "TOT"}

\* nothing is exported yet
NoRow == [written |-> FALSE, TCR |-> Sentinel, UCR |-> Sentinel, CCR |-> Sentinel]

\* PDC_ZPP.__init__
NewZpp == [empty |-> TRUE, BIN |-> -1, NUL |-> -1, PRD |-> -1, TOT |-> -1,
           TCR |-> Sentinel, UCR |-> Sentinel, CCR |-> Sentinel]

\* the guard of line 124
TcrComputable(z) == z.TOT # -1 /\ z.BIN # -1 /\ z.PRD # -1

\* line 126 divides by BIN and by 10e-9*PRD
TcrRaises(z) == TcrComputable(z) /\ (z.BIN = 0 \/ z.PRD = 0)

\* line 126 with a clock period of 100e-9
TcrValue_Period100(z) == RatDiv(Rat(z.TOT, z.BIN), Rat(z.PRD, ClkHz \div 10))

\* line 126: (TOT/BIN)/(10e-9*PRD)
TcrValue(z) == RatDiv(Rat(z.TOT, z.BIN), Rat(z.PRD, ClkHz))

\* lines 124-129
TcrOf(z) == IF TcrComputable(z) THEN TcrValue(z) ELSE Sentinel

\* line 131, the raw UCR
UcrRaw(z) == Rat(NegLog(z.NUL, z.BIN) * (ClkHz \div LnScale), z.PRD)

\* lines 132-133 without the bound check
UcrBound_NoCheck(ucr, tcr) == ucr

\* lines 132-133
UcrBound(ucr, tcr) == IF RatGt(ucr, tcr) THEN Sentinel ELSE ucr

\* lines 130-135 with a UCR of 0 when NUL is not positive
UcrOf_ZeroForNoNul(z, tcr) ==
    IF tcr # Sentinel
    THEN IF z.NUL > 0 THEN UcrBound(UcrRaw(z), tcr) ELSE RatInt(0)
    ELSE Sentinel

\* lines 130-135
UcrOf(z, tcr) ==
    IF tcr # Sentinel /\ z.NUL > 0 THEN UcrBound(UcrRaw(z), tcr) ELSE Sentinel

\* lines 136-139 with the difference UCR - TCR
CcrOf_Reversed(tcr, ucr) ==
    IF tcr.n > 0 /\ ucr.n > 0 THEN RatDiv(RatSub(ucr, tcr), tcr) ELSE Sentinel

\* lines 136-139 without the test of UCR
CcrOf_NoUcrTest(tcr, ucr) ==
    IF tcr.n > 0 THEN RatDiv(RatSub(tcr, ucr), tcr) ELSE Sentinel

\* lines 136-139
CcrOf(tcr, ucr) ==
    IF tcr.n > 0 /\ ucr.n > 0 THEN RatDiv(RatSub(tcr, ucr), tcr) ELSE Sentinel

\* PDC_ZPP.setItem: val = int(value[0]) is stored and empty is cleared
setItem(item, val) ==
    /\ zpc = "new"
    /\ ~csv.written
    /\ zpp' = [zpp EXCEPT ![item] = val, !.empty = FALSE]
    /\ UNCHANGED <<zpc, zexc, csv>>

\* PDC_ZPP.process, returning normally
processOk ==
    /\ zpc = "new"
    /\ ~csv.written
    /\ ~TcrRaises(zpp)
    /\ LET tcr == TcrOf(zpp)
           ucr == UcrOf(zpp, tcr)
           ccr == CcrOf(tcr, ucr)
       IN  zpp' = [zpp EXCEPT !.TCR = tcr, !.UCR = ucr, !.CCR = ccr]
    /\ zpc' = "done"
    /\ UNCHANGED <<zexc, csv>>

\* PDC_ZPP.process, line 126 raising ZeroDivisionError: no field is assigned
processRaise ==
    /\ zpc = "new"
    /\ ~csv.written
    /\ TcrRaises(zpp)
    /\ zpc' = "raised"
    /\ zexc' = "ZeroDivisionError"
    /\ UNCHANGED <<zpp, csv>>

\* zppPlotter.getTCR, getUCR, getCCR (getSpadTcrUcrCcrUsingFlag.py:331, 343,
\* 355) for one SPAD: spad.TCR, spad.UCR, 100*spad.CCR
getTCR(spad) == spad.TCR
getUCR(spad) == spad.UCR
getCCR(spad) == RatMul(RatInt(100), spad.CCR)

\* zppPlotter.saveData, lines 516-554, for one SPAD of a valid PDC: the
\* columns TCR (cps), UCR (cps) and CCR (%) of its row.  The object is the
\* one newData stored, or the PDC_ZPP() of __init__ (line 296) for a SPAD that
\* was never measured.  float_format "%.3E" writes -1 as -1.000E+00 and -100
\* as -1.000E+02
saveData ==
    /\ zpc \in {"new", "done"}
    /\ ~csv.written
    /\ csv' = [written |-> TRUE, TCR |-> getTCR(zpp), UCR |-> getUCR(zpp),
               CCR |-> getCCR(zpp)]
    /\ UNCHANGED <<zpp, zpc, zexc>>

ZppIdle == zpp = NewZpp /\ zpc = "new" /\ zexc = "none" /\ csv = NoRow

ZppNext ==
    \/ saveData /\ UNCHANGED <<rvars, svars, tvars>>
    \/ \E item \in ZppItems, val \in 0..MaxCount : setItem(item, val) /\ UNCHANGED <<rvars, svars, tvars>>
    \/ processOk /\ UNCHANGED <<rvars, svars, tvars>>
    \/ processRaise /\ UNCHANGED <<rvars, svars, tvars>>

--------------------------------------------------------------------------
(* Result rendezvous *)

Range(s) == {s[i] : i \in 1..Len(s)}

\* the files of the rendezvous specification: two result files and a file the
\* converter is still writing (its name holds the marker CTL_XXX)
RdvFiles == {"a.h5", "b.h5", "CTL_XXX_c.h5"}

\* the result files of a session, in the order the conversion pipeline names
\* them (the names are time stamps: every file has a new name)
SessionFiles == <<"r01.h5", "r02.h5", "r03.h5", "r04.h5", "r05.h5",
                  "r06.h5", "r07.h5", "r08.h5", "r09.h5", "r10.h5">>

\* the paths of the model
Paths == RdvFiles \cup Range(SessionFiles)

\* the names "ls -1t path/*.h5" lists
H5Glob == Paths

\* the names with ".h5" in fileName (line 226)
HasH5InName == Paths

\* the names with "CTL_XXX" in fileName (line 229)
HasMarker == {"CTL_XXX_c.h5"}

\* the path getLastH5 returns when there is no new file
NoFile == ""

Min(S) == CHOOSE x \in S : \A y \in S : x <= y

Max(S) == CHOOSE x \in S : \A y \in S : y <= x

Remove(s, p) == SelectSeq(s, LAMBDA q : q # p)

\* h5Reader.getPathList(path, newFirst=True): the *.h5 files, newest first
getPathList(d) == SelectSeq(d, LAMBDA p : p \in H5Glob)

\* line 236 without the test of the seen list
NotSeen_NoCheck(pathName, seen) == TRUE

\* line 236
NotSeen(pathName, seen) == pathName \notin Range(seen)

\* line 234 without the test of the size
NotEmpty_NoCheck(pathName, sz) == TRUE

\* line 234
NotEmpty(pathName, sz) == sz[pathName] > 0

\* lines 226-231 without the test of the marker
NameReady_NoMarker(pathName) == pathName \in HasH5InName

\* lines 226-231: a data file whose name does not say "not ready"
NameReady(pathName) == pathName \in HasH5InName /\ pathName \notin HasMarker

\* the index in pathList of the file the loop of getLastH5 returns, 0 if none
LastIdx(pathList, sz, seen) ==
    LET hit == {i \in 1..Len(pathList) :
                   /\ NameReady(pathList[i])
                   /\ NotEmpty(pathList[i], sz)
                   /\ NotSeen(pathList[i], seen)}
    IN  IF hit = {} THEN 0 ELSE Min(hit)

\* the value h5Reader.getLastH5 returns
LastH5(d, sz, seen) ==
    LET pathList == getPathList(d)
        i == LastIdx(pathList, sz, seen)
    IN  IF i = 0 THEN NoFile ELSE pathList[i]

\* a poll looked at a ready, non-empty file and passed it over as already seen
PassedOver(d, sz, seen) ==
    LET pathList == getPathList(d)
        i == LastIdx(pathList, sz, seen)
        upTo == IF i = 0 THEN Len(pathList) ELSE i
    IN  \E j \in 1..upTo :
            /\ NameReady(pathList[j])
            /\ NotEmpty(pathList[j], sz)
            /\ pathList[j] \in Range(seen)

\* h5Reader.getLastH5: the effect on parsedH5 (line 239), with the histories
getLastH5(res) ==
    /\ res = LastH5(dir, size, parsedH5)
    /\ parsedH5' = IF res = NoFile THEN parsedH5 ELSE Append(parsedH5, res)
    /\ retLog' = IF res = NoFile THEN retLog ELSE Append(retLog, res)
    /\ skipped' = (skipped \/ PassedOver(dir, size, parsedH5))

\* h5Reader.newFileReady (os.path.basename(hfFile) == "" only for hfFile = "")
newFileReady(r) == r.hfFile # NoFile

\* the directory after h5Reader.h5Close / __del__ of reader r (lines 281-283)
DirAfterClose(r, d) ==
    IF r.deleteAfter /\ r.hfFile \in Range(d) THEN Remove(d, r.hfFile) ELSE d

\* the sizes after h5Close: a file that was removed has none
SizeAfterClose(r, d, sz) ==
    IF r.deleteAfter /\ r.hfFile \in Range(d) THEN [sz EXCEPT ![r.hfFile] = 0] ELSE sz

\* h5Close that removes the file and keeps its name in hfFile
ReaderAfterClose_KeepsName(r, d) == [r EXCEPT !.h5 = FALSE]

\* the reader after h5Close (lines 277-284)
ReaderAfterClose(r, d) ==
    [r EXCEPT !.h5 = FALSE,
              !.hfFile = IF r.deleteAfter /\ r.hfFile \in Range(d) THEN NoFile ELSE @]

Waiting == w.st = "polling"

\* no wait is in progress
NoWait == [kind |-> "none", st |-> "idle", timeout |-> 0]

\* the caller is between two waits
CallerReady == w.st \in {"idle", "returned"}

\* the process has not ended in sys.exit()
Alive == w.st # "exited"

\* h5Reader(deleteAfter, hfAbsPath, hfFile=""): lines 145-189.  The object the name
\* was bound to is destroyed (__del__ calls h5Close), the new one polls once
NewReader(deleteAfter) ==
    /\ CallerReady
    /\ \E res \in Paths \cup {NoFile} :
        /\ getLastH5(res)
        /\ db' = [hfFile |-> res, h5 |-> FALSE, deleteAfter |-> deleteAfter]
    /\ dir' = DirAfterClose(db, dir)
    /\ size' = SizeAfterClose(db, dir, size)
    /\ w' = NoWait
    /\ elapsed' = 0

\* h5Reader.h5Open, on a reader that holds a claimed file that exists
h5Open ==
    /\ CallerReady
    /\ db.hfFile \in Range(dir)
    /\ ~db.h5
    /\ db' = [db EXCEPT !.h5 = TRUE]
    /\ w' = NoWait
    /\ elapsed' = 0
    /\ UNCHANGED <<dir, size, parsedH5, retLog, skipped>>

\* h5Reader.h5Close
h5Close ==
    /\ CallerReady
    /\ db.h5 \/ (db.deleteAfter /\ db.hfFile \in Range(dir))
    /\ dir' = DirAfterClose(db, dir)
    /\ size' = SizeAfterClose(db, dir, size)
    /\ db' = ReaderAfterClose(db, dir)
    /\ w' = NoWait
    /\ elapsed' = 0
    /\ UNCHANGED <<parsedH5, retLog, skipped>>

\* the loop condition of waitForNewFile, line 257
NewFileLoop(hfFile, el, timeout_sec) == hfFile = NoFile /\ el < timeout_sec

\* h5Reader.waitForNewFile, lines 254-257: the first poll and the loop test
waitForNewFileStart(timeout_sec) ==
    /\ CallerReady
    /\ \E res \in Paths \cup {NoFile} :
        /\ getLastH5(res)
        /\ db' = [db EXCEPT !.hfFile = res]
        /\ w' = [kind |-> "newfile", timeout |-> timeout_sec,
                 st |-> IF NewFileLoop(res, 0, timeout_sec) THEN "polling"
                        ELSE "returned"]
    /\ elapsed' = 0
    /\ UNCHANGED <<dir, size>>

\* h5Reader.waitForNewFile, lines 258-259 and the loop test: sleep a second,
\* poll, and return when a file was found or the time is over
waitForNewFileIter ==
    /\ w.kind = "newfile" /\ w.st = "polling"
    /\ elapsed' = elapsed + 1
    /\ \E res \in Paths \cup {NoFile} :
        /\ getLastH5(res)
        /\ db' = [db EXCEPT !.hfFile = res]
        /\ w' = [w EXCEPT !.st = IF NewFileLoop(res, elapsed', w.timeout)
                        THEN "polling" ELSE "returned"]
    /\ UNCHANGED <<dir, size>>

\* the test of line 618 (618 of getSpadTcrUcrCcrUsingFlag.py) that never fires
Expired_Never(el, timeOutSec) == FALSE

\* datetime.now()-t0 > timedelta(seconds=timeOutSec)
Expired(el, timeOutSec) == el > timeOutSec

\* waitForH5File, line 609: t0 is taken
waitForH5FileStart(timeOutSec) ==
    /\ CallerReady
    /\ w' = [kind |-> "h5file", st |-> "polling", timeout |-> timeOutSec]
    /\ elapsed' = 0
    /\ UNCHANGED <<dir, size, parsedH5, db, retLog, skipped>>

\* waitForH5File, one turn of the loop (lines 611-620): a new reader polls;
\* the file is returned, or the time is over and the script exits, or the
\* loop goes on
waitForH5FileIter ==
    /\ w.kind = "h5file" /\ w.st = "polling"
    /\ \E res \in Paths \cup {NoFile} :
        /\ getLastH5(res)
        /\ db' = [hfFile |-> res, h5 |-> FALSE, deleteAfter |-> TRUE]
        /\ w' = [w EXCEPT !.st = IF res # NoFile THEN "returned"
                                 ELSE IF Expired(elapsed, w.timeout) THEN "exited"
                                 ELSE "polling"]
    /\ dir' = DirAfterClose(db, dir)
    /\ size' = SizeAfterClose(db, dir, size)
    /\ UNCHANGED elapsed

\* a second passes while a wait is in progress (the clock is read only there)
Tick ==
    /\ Waiting
    /\ elapsed <= w.timeout
    /\ elapsed' = elapsed + 1
    /\ UNCHANGED <<dir, size, parsedH5, db, w, retLog, skipped>>

\* the conversion pipeline creates a file, empty or with content
FileAppears(p, sz) ==
    /\ Alive
    /\ p \notin Range(dir)
    /\ dir' = <<p>> \o dir
    /\ size' = [size EXCEPT ![p] = sz]
    /\ UNCHANGED <<parsedH5, db, w, elapsed, retLog, skipped>>

\* the conversion pipeline writes the content of an empty file
FileWritten(p) ==
    /\ Alive
    /\ p \in Range(dir)
    /\ size[p] = 0
    /\ dir' = <<p>> \o Remove(dir, p)
    /\ size' = [size EXCEPT ![p] = 1]
    /\ UNCHANGED <<parsedH5, db, w, elapsed, retLog, skipped>>

RdvIdle ==
    /\ dir = <<>>
    /\ size = [p \in Paths |-> 0]
    /\ parsedH5 = <<>>
    /\ db = [hfFile |-> NoFile, h5 |-> FALSE, deleteAfter |-> FALSE]
    /\ w = NoWait
    /\ elapsed = 0
    /\ retLog = <<>>
    /\ skipped = FALSE

RdvNext ==
    \/ \E da \in BOOLEAN : NewReader(da) /\ UNCHANGED <<zvars, svars, tvars>>
    \/ h5Open /\ UNCHANGED <<zvars, svars, tvars>>
    \/ h5Close /\ UNCHANGED <<zvars, svars, tvars>>
    \/ \E t \in 1..MaxTimeout : waitForNewFileStart(t) /\ UNCHANGED <<zvars, svars, tvars>>
    \/ waitForNewFileIter /\ UNCHANGED <<zvars, svars, tvars>>
    \/ \E t \in 1..MaxTimeout : waitForH5FileStart(t) /\ UNCHANGED <<zvars, svars, tvars>>
    \/ waitForH5FileIter /\ UNCHANGED <<zvars, svars, tvars>>
    \/ Tick /\ UNCHANGED <<zvars, svars, tvars>>
    \/ \E p \in RdvFiles, sz \in {0, 1} : FileAppears(p, sz) /\ UNCHANGED <<zvars, svars, tvars>>
    \/ \E p \in RdvFiles : FileWritten(p) /\ UNCHANGED <<zvars, svars, tvars>>

--------------------------------------------------------------------------
(* Command sessions: the words of the registers *)

\* Python's & and | on the non-negative integers
RECURSIVE BitAnd(_, _)
BitAnd(a, b) ==
    IF a = 0 \/ b = 0 THEN 0
    ELSE (a % 2) * (b % 2) + 2 * BitAnd(a \div 2, b \div 2)

RECURSIVE BitOr(_, _)
BitOr(a, b) ==
    IF a = 0 THEN b
    ELSE IF b = 0 THEN a
    ELSE (IF a % 2 = 1 \/ b % 2 = 1 THEN 1 ELSE 0) + 2 * BitOr(a \div 2, b \div 2)

\* x << k and x >> k
Shl(x, k) == x * 2^k
Shr(x, k) == x \div 2^k

\* x & (2^width - 1); a negative x is taken in two's complement, as Python does
Low(x, width) == x % 2^width

\* setPdcTimeReg with rech placed at bit 5, inside the field of hold
\* setPdcTimeReg without the masks
setPdcTimeReg_NoMask(hold, rech, flag) == hold + Shl(rech, 6) + Shl(flag, 11)

setPdcTimeReg_Overlap(hold, rech, flag) ==
    Low(hold, 6) + Shl(Low(rech, 5), 5) + Shl(Low(flag, 5), 11)

\* pdcHelper.setPdcTimeReg, lines 155-159: REG = 0; REG += (hold&0x3F);
\* REG += ((rech&0x1F)<<6); REG += ((flag&0x1F)<<11); return REG.  The
\* arguments are Python ints: & with 0x3F = 2^6 - 1 and 0x1F = 2^5 - 1 takes
\* a negative one in two's complement
setPdcTimeReg(hold, rech, flag) ==
    Low(hold, 6) + Shl(Low(rech, 5), 6) + Shl(Low(flag, 5), 11)

\* the field of a word: width bits from bit offset on (shift, then mask)
FieldOf(word, offset, width) == BitAnd(Shr(word, offset), 2^width - 1)

\* the FSM register words getDsumOnExternal.py computes (lines 118-270)
toutReg == BitOr(BitOr(Shl(Low(0, 1), 15), Shl(Low(1, 1), 14)),
                 BitOr(Shl(Low(1, 2), 12), Low(48, 10)))
fendReg == BitOr(BitOr(Shl(Low(1, 1), 15), Shl(Low(2, 2), 8)), Low(0, 8))
ftx1Reg == BitOr(BitOr(Shl(Low(0, 1), 15), Shl(Low(0, 7), 8)), Low(0 + 128, 8))
ftx0Reg == BitOr(BitOr(Shl(Low(1, 1), 15), Shl(Low(1, 1), 10)),
                 BitOr(Shl(Low(2, 2), 8), Low(0, 8)))
atx1Reg == BitOr(BitOr(Shl(Low(0, 1), 15), Shl(Low(0, 7), 8)), Low(0, 8))
atx0Reg == BitOr(BitOr(Shl(Low(0, 1), 15), Shl(Low(0, 2), 11)),
                 BitOr(Shl(Low(0, 3), 8), Low(0, 8)))
slw1Reg == BitOr(Shl(Low(0, 8), 8), Low(128, 8))
\* nAcqSamplesFast = 0: the slow stage takes FSM_ACQ_TRG_MODE and the delay
\* nAcqSamplesSlow - nAcqSamplesHistory (lines 219-222)
slw0Reg == BitOr(BitOr(Shl(Low(1, 1), 15), Shl(Low(2, 3), 8)), Low(128 - 28, 8))
fst1Reg == Low(0, 8)
fst0Reg == BitOr(BitOr(Shl(Low(0, 1), 15), Shl(Low(2, 3), 8)), Low(0 - 28, 8))
facqReg == BitOr(BitOr(Shl(Low(0, 1), 15), Shl(Low(0, 7), 8)),
                 BitOr(Shl(Low(0, 4), 4), Low(7, 3)))
fsmmReg == BitOr(BitOr(Shl(Low(1, 1), 8), Shl(Low(1, 1), 4)), Low(0, 2))
auxiReg == BitOr(BitOr(Shl(Low(0, 4), 12), Shl(Low(0, 1), 8)), Low(4, 4))

\* a field of a register word: ((value & (2^w - 1)) << o)
Field(width, offset) == [w |-> width, o |-> offset]

\* the layouts with FSM_TX_CMD_MODE of FTX0 at bit 9, inside FSM_TX_MODE
FsmLayout_Overlap ==
    [TOUT |-> <<Field(1, 15), Field(1, 14), Field(2, 12), Field(10, 0)>>,
     FEND |-> <<Field(1, 15), Field(2, 8), Field(8, 0)>>,
     FTX1 |-> <<Field(1, 15), Field(7, 8), Field(8, 0)>>,
     FTX0 |-> <<Field(1, 15), Field(1, 9), Field(2, 8), Field(8, 0)>>,
     ATX1 |-> <<Field(1, 15), Field(7, 8), Field(8, 0)>>,
     ATX0 |-> <<Field(1, 15), Field(2, 11), Field(3, 8), Field(8, 0)>>,
     SLW1 |-> <<Field(8, 8), Field(8, 0)>>,
     SLW0 |-> <<Field(1, 15), Field(3, 8), Field(8, 0)>>,
     FST1 |-> <<Field(8, 0)>>,
     FST0 |-> <<Field(1, 15), Field(3, 8), Field(8, 0)>>,
     FACQ |-> <<Field(1, 15), Field(7, 8), Field(4, 4), Field(3, 0)>>,
     FSMM |-> <<Field(1, 8), Field(1, 4), Field(2, 0)>>]

\* the masks and the shifts of the FSM register words of getDsumOnExternal.py,
\* in the order the source ORs the fields (lines 143-144, 152, 160, 171, 180,
\* 200-201, 208, 224, 230, 246, 260-261, 270)
FsmLayout ==
    [TOUT |-> <<Field(1, 15), Field(1, 14), Field(2, 12), Field(10, 0)>>,
     FEND |-> <<Field(1, 15), Field(2, 8), Field(8, 0)>>,
     FTX1 |-> <<Field(1, 15), Field(7, 8), Field(8, 0)>>,
     FTX0 |-> <<Field(1, 15), Field(1, 10), Field(2, 8), Field(8, 0)>>,
     ATX1 |-> <<Field(1, 15), Field(7, 8), Field(8, 0)>>,
     ATX0 |-> <<Field(1, 15), Field(2, 11), Field(3, 8), Field(8, 0)>>,
     SLW1 |-> <<Field(8, 8), Field(8, 0)>>,
     SLW0 |-> <<Field(1, 15), Field(3, 8), Field(8, 0)>>,
     FST1 |-> <<Field(8, 0)>>,
     FST0 |-> <<Field(1, 15), Field(3, 8), Field(8, 0)>>,
     FACQ |-> <<Field(1, 15), Field(7, 8), Field(4, 4), Field(3, 0)>>,
     FSMM |-> <<Field(1, 8), Field(1, 4), Field(2, 0)>>]

FsmRegs == DOMAIN FsmLayout

\* the fields of the word of setPdcTimeReg (pdcHelper.py:156-158)
TimeLayout == <<Field(6, 0), Field(5, 6), Field(5, 11)>>

\* the registers packed in the model, and the layout of each
PackRegs == FsmRegs \cup {"TIME"}
LayoutOf(r) == IF r = "TIME" THEN TimeLayout ELSE FsmLayout[r]

\* the word of a register with every mask one bit wider than its field
RECURSIVE PackWord_WideMask(_, _)
PackWord_WideMask(layout, vals) ==
    IF layout = <<>> THEN 0
    ELSE BitOr(Shl(Low(vals[1], layout[1].w + 1), layout[1].o),
               PackWord_WideMask(Tail(layout), Tail(vals)))

\* the word of a register: the OR of its fields, each value masked to the
\* width of its field and shifted to its offset
RECURSIVE PackWord(_, _)
PackWord(layout, vals) ==
    IF layout = <<>> THEN 0
    ELSE BitOr(Shl(Low(vals[1], layout[1].w), layout[1].o),
               PackWord(Tail(layout), Tail(vals)))

\* FSM_SEQ_START_MODE of a word of FSMM (bits 1..0, line 269)
StartMode(word) == Low(word, 2)

\* bit 15 of a word: the enable bit of a stage, of the ZPP timer, of TRGN
Bit15(word) == Low(Shr(word, 15), 1)

--------------------------------------------------------------------------
(* Command sessions: the commands *)

\* a command line given to the ssh client: the tool, its arguments, and the
\* number the arguments carry (-1 when there is none)
Cmd(tool, arg, val) == [tool |-> tool, arg |-> arg, val |-> val]

\* "ctlCfg -a reg -r 0x.... -g", "ctlCmd -c c", "pdcCfg -a reg -r 0x.... -g"
ctlCfg(reg, val) == Cmd("ctlCfg", reg, val)
ctlCmd(c) == Cmd("ctlCmd", c, -1)
pdcCfg(reg, val) == Cmd("pdcCfg", reg, val)

\* the tools that talk to the controller and to the PDCs
DeviceTools == {"clkSet", "boardInfo", "ioDelaySet", "rtnEn", "ctlCfg", "ctlCmd",
                "pdcCfg", "pdcTime", "pdcPix", "pdcSpad", "auxOut", "stop"}

\* the shell commands of zynqDataTransfer: the NFS mount and the dataReader process
HostTools == {"df", "ping", "pgrep", "dataReader", "kill"}

IsDeviceCmd(c) == c.tool \in DeviceTools

\* initCtlPdcFromClient.setSysClkPrd: sysClkPrdNs = int(round(10e-9*1e9))
setSysClkPrdCmds == <<Cmd("clkSet", "-P --ns", 10)>>

\* initCtlPdcFromClient.resetCtl
resetCtlCmds == <<ctlCmd("RSTN_FULL")>>

\* initCtlPdcFromClient.setCtlPacket
setCtlPacketCmds(bank, SCS, SCD, SPD) ==
    <<ctlCfg(IF bank = "A" THEN "SCSA" ELSE "SCSB", SCS),
      ctlCfg(IF bank = "A" THEN "SCDA" ELSE "SCDB", SCD),
      ctlCfg(IF bank = "A" THEN "SPDA" ELSE "SPDB", SPD)>>

\* initCtlPdcFromClient.setDelay(signal="CFG_DATA", delay=300) when the
\* controller reports numLines delay lines
setDelayCmds(numLines) ==
    <<Cmd("ioDelaySet", "--signal CFG_DATA --reset", -1),
      Cmd("ioDelaySet", "--signal CFG_DATA -n", -1)>>
    \o [line \in 1..numLines |->
           Cmd("ioDelaySet", "--signal CFG_DATA --sel --count 300 --get", line - 1)]

\* initCtlPdcFromClient.checkPowerGood never finding the power bad
PowerBad_Never(pwrGood, pdcEnUser) == FALSE

\* initCtlPdcFromClient.__init__, lines 39-40: the type of client is neither
\* sshClient nor sshClientFromCfg
ClientBad(type) == type # "sshClient" /\ type # "sshClientFromCfg"

\* client = sshClientHelper.sshClientFromCfg(hostCfgName="zcudev"), the
\* client every script makes (getSpadTcrUcrCcrUsingFlag.py:76)
clientType == "sshClientFromCfg"

\* initCtlPdcFromClient.checkPowerGood: the test of line 178
PowerBad(pwrGood, pdcEnUser) == BitAnd(pwrGood, pdcEnUser) # pdcEnUser

\* initCtlPdcFromClient.setCfgRtnEn, lines 199-202: (pdcEnUser > 16) is a
\* comparison, 1 when it holds
PG_EXP(pdcEnUser) ==
    (IF BitAnd(pdcEnUser, 65535) # 0 THEN 1 ELSE 0)
    + (IF BitAnd(IF pdcEnUser > 16 THEN 1 ELSE 0, 65535) # 0 THEN 2 ELSE 0)

\* initCtlPdcFromClient.setCfgRtnEn: the commands sent when "rtnEn -n"
\* answers n and "rtnEn -s" answers s
setCfgRtnEnCmds(c, n) ==
    IF c.nPdcMax = 8
    THEN IF n # c.nPdcMax
         THEN <<Cmd("rtnEn", "-n", -1)>>
         ELSE <<Cmd("rtnEn", "-n", -1), Cmd("rtnEn", "-e -s", c.pdcEnUser),
                Cmd("rtnEn", "-s", -1)>>
    ELSE IF c.nPdcMax = 32
    THEN <<Cmd("rtnEn", "-n", -1), Cmd("rtnEn", "-s", -1)>>
    ELSE <<Cmd("rtnEn", "-n", -1)>>

\* initCtlPdcFromClient.setCfgRtnEn: it ends in sys.exit()
setCfgRtnEnExits(c, n, s) ==
    IF c.nPdcMax = 8 THEN n # c.nPdcMax \/ c.pdcEnUser # s
    ELSE IF c.nPdcMax = 32
    THEN BitAnd(s, PG_EXP(c.pdcEnUser)) # PG_EXP(c.pdcEnUser)
    ELSE FALSE

\* initCtlPdcFromClient.preparePDC
preparePDCCmds(c) ==
    <<ctlCfg("PDC0", Low(c.pdcEnUser, 16)),
      ctlCfg("PDC1", Low(Shr(c.pdcEnUser, 16), 16)),
      ctlCfg("CFG0", Low(c.pdcEnUser, 16)),
      ctlCfg("CFG1", Low(Shr(c.pdcEnUser, 16), 16)),
      ctlCfg("PRST", 0)>>
    \o (IF c.nPdcMax = 8 THEN <<ctlCfg("PRST", c.pdcEnUser)>>
        ELSE IF c.nPdcMax = 32 THEN <<ctlCfg("PRST", 1)>>
        ELSE <<>>)

\* the registers setupFSM accepts
allowed_keys == {"TOUT", "FEND", "FTX1", "FTX0", "ATX1", "ATX0", "SLW1", "SLW0",
                 "FST1", "FST0", "FACQ", "FSMM", "MISC"}

Reverse(s) == [i \in 1..Len(s) |-> s[Len(s) + 1 - i]]

\* the accepted entries of cfg_dict, in the order of the dictionary
Accepted(cfg_dict) == SelectSeq(cfg_dict, LAMBDA e : e[1] \in allowed_keys)

\* setupFSM that stops at the first entry it does not accept
setupFSMCmds_StopAtUnknown(cfg_dict) ==
    LET bad == {i \in 1..Len(cfg_dict) : cfg_dict[i][1] \notin allowed_keys}
        acc == IF bad = {} THEN cfg_dict ELSE SubSeq(cfg_dict, 1, Min(bad) - 1)
    IN  [i \in 1..Len(acc) |-> ctlCfg(acc[i][1], acc[i][2])]

\* setupFSM walking the dictionary from its last entry to its first
setupFSMCmds_Reversed(cfg_dict) ==
    LET acc == Reverse(Accepted(cfg_dict))
    IN  [i \in 1..Len(acc) |-> ctlCfg(acc[i][1], acc[i][2])]

\* initCtlPdcFromClient.setupFSM: one command line "ctlCfg ... ; ctlCfg ... ; "
\* that the remote shell runs from left to right
setupFSMCmds(cfg_dict) ==
    LET acc == Accepted(cfg_dict)
    IN  [i \in 1..Len(acc) |-> ctlCfg(acc[i][1], acc[i][2])]

\* the status registers validPdcCfg validates
statusToValidate == <<"BNK_RTN_CLK_ERR", "BNK_RTN_DATA_ERR", "PDC_CMD_VALID_ERR",
                      "PDC_CFG_VALID_ERR", "PDC_CFG_CS_ERR",
                      "PDC_CFG_VALID_LEN_ERR", "GENERAL_STATUS">>

\* "ctlCfg -s BNK_RTN_CLK_ERR,...,GENERAL_STATUS"
statusRead == Cmd("ctlCfg", "-s", -1)

\* no status read has been made
NoOutput == [stderr |-> FALSE, stdout |-> <<>>, read |-> FALSE]

\* the answer with the seven registers at zero
OkLines == [i \in 1..Len(statusToValidate) |-> [name |-> statusToValidate[i], val |-> 0]]

\* s without its i-th element
Without(s, i) == [j \in 1..(Len(s) - 1) |-> IF j < i THEN s[j] ELSE s[j + 1]]

\* the answers of the status read: all zero; an error message; one register
\* not zero; one register missing; one register missing and another twice
StatusOutputs ==
    {[stderr |-> FALSE, stdout |-> OkLines, read |-> TRUE],
     [stderr |-> TRUE, stdout |-> <<>>, read |-> TRUE],
     [stderr |-> FALSE, stdout |-> [OkLines EXCEPT ![7] = OkLines[1]], read |-> TRUE]}
    \cup {[stderr |-> FALSE, stdout |-> [OkLines EXCEPT ![i].val = 1], read |-> TRUE] :
             i \in 1..Len(statusToValidate)}
    \cup {[stderr |-> FALSE, stdout |-> Without(OkLines, i), read |-> TRUE] :
             i \in 1..Len(statusToValidate)}

\* nStatusFound: the lines of stdout that start with a register to validate
nStatusFound(out) ==
    Cardinality({i \in 1..Len(out.stdout) : out.stdout[i].name \in Range(statusToValidate)})

\* validPdcCfg that never exits
validPdcCfgExits_Never(out) == FALSE

\* validPdcCfg ends in sys.exit(): lines 298-304, 316-318 and 320-323
validPdcCfgExits(out) ==
    \/ out.stderr
    \/ \E i \in 1..Len(out.stdout) :
          out.stdout[i].name \in Range(statusToValidate) /\ out.stdout[i].val # 0
    \/ nStatusFound(out) # Len(statusToValidate)

\* pdc_setting.apply: one command line of thirteen pdcCfg
applyCmds(setting) == [i \in 1..Len(setting) |-> Cmd("pdcCfg", setting[i][1], setting[i][2])]

\* setZppModule of getSpadTcrUcrCcrUsingFlag.py (lines 243-256), for the
\* register values int(onTimeSec/CLK_PRD) and int(offTimeSec/CLK_PRD)
setZppModuleCmds(ZPP_HIGH_REG, ZPP_LOW_REG) ==
    <<ctlCfg("ZPH0", Low(ZPP_HIGH_REG, 16)),
      ctlCfg("ZPH1", Low(Shr(ZPP_HIGH_REG, 16), 16)),
      ctlCfg("ZPL0", Low(ZPP_LOW_REG, 16)),
      ctlCfg("ZPL1", BitOr(Low(Shr(ZPP_LOW_REG, 16), 16), 32768))>>

\* int(t/CLK_PRD) for a period t >= 0 and CLK_PRD = 10e-9
ClkCycles(t) == (t.n * ClkHz) \div t.d

\* measTime = 0.1 second
measTime == Rat(1, 10)

\* nZppCycles = 1000 (line 69)
nZppCycles == 1000

\* spadEnPattern = 0xFFFFFFFFFFFFFFFF (line 704), the 64-bit word of ones
AllSpads == -1

\* icp.sysClkPrd = 10e-9 second
sysClkPrd == Rat(1, ClkHz)

\* measCntRate with the data packet asked for before the ZPP module is reset
measCntRateCmds_TriggerFirst(spadEnPattern) ==
    <<Cmd("pdcSpad", "--pattern spadEnPattern --mode NONE", spadEnPattern),
      ctlCmd("MODE_ACQ"), ctlCmd("PACK_TRG_A"), ctlCmd("RSTN_ZPP")>>

\* measTrgRate of testPixQcUsingTrigger.py, lines 600-607: the commands of one
\* measurement of pixel iPix; the ctlCfg of TRGN is sent with runSleep, which
\* waits measTime for the statistics
measTrgRateCmds(iPix) ==
    <<Cmd("pdcPix", "--dis --index iPix --mode NONE", iPix),
      ctlCmd("MODE_TRG"), ctlCmd("RSTN_ZPP"), Cmd("ctlCfg", "TRGN", -1),
      ctlCmd("MODE_ACQ"), ctlCmd("PACK_TRG_A")>>

\* measCntRate, lines 646-662: the commands of one measurement; spadEnPattern
\* is an int, so one pdcSpad command carries it
measCntRateCmds(spadEnPattern) ==
    <<Cmd("pdcSpad", "--pattern spadEnPattern --mode NONE", spadEnPattern),
      ctlCmd("MODE_ACQ"), ctlCmd("RSTN_ZPP"), ctlCmd("PACK_TRG_A")>>

\* zynqDataTransfer.__del__, lines 68-72
killCmds(z) == IF z.local THEN <<Cmd("kill", "PID", -1)>> ELSE <<>>

--------------------------------------------------------------------------
(* The optimizer getZppOptimalPeriod (getSpadTcrUcrCcrUsingFlag.py:622-638) *)

\* an entry of allPdcsZppData: None, or a PDC_ZPP object with its TCR
None == [present |-> FALSE, TCR |-> Sentinel]
Entry(tcr) == [present |-> TRUE, TCR |-> tcr]

\* line 627: zpp != None and zpp.TCR != -1
HasTcr(zpp_) == zpp_.present /\ zpp_.TCR # Sentinel

\* lines 624-629: avgTcrAll after the loop, the sum of the TCR that count
RECURSIVE SumTcr(_)
SumTcr(allPdcsZppData) ==
    IF allPdcsZppData = <<>> THEN RatInt(0)
    ELSE LET rest == SumTcr(Tail(allPdcsZppData))
         IN  IF HasTcr(Head(allPdcsZppData))
             THEN RatAdd(Head(allPdcsZppData).TCR, rest)
             ELSE rest

\* lines 625-629: nb after the loop
nbOf(allPdcsZppData) ==
    Cardinality({i \in 1..Len(allPdcsZppData) : HasTcr(allPdcsZppData[i])})

\* lines 630-631 with the floor division //=
avgTcrAllOf_Floor(allPdcsZppData) ==
    LET nb == nbOf(allPdcsZppData)
        sum == SumTcr(allPdcsZppData)
    IN  IF nb > 0 THEN RatInt(sum.n \div (sum.d * nb)) ELSE RatInt(0)

\* lines 624-631: avgTcrAll when line 632 reads it
avgTcrAllOf(allPdcsZppData) ==
    LET nb == nbOf(allPdcsZppData)
    IN  IF nb > 0 THEN RatDiv(SumTcr(allPdcsZppData), RatInt(nb)) ELSE RatInt(0)

\* line 632, 1.0/avgTcrAll, raises ZeroDivisionError
OptimalPeriodRaises(args) == avgTcrAllOf(args.allPdcsZppData).n = 0

\* lines 632-636 without the division by 2.0 of line 636
OptimalPeriod_NoHalf(args) ==
    RatMul(RatDiv(RatInt(1), avgTcrAllOf(args.allPdcsZppData)), RatInt(args.nSpad))

\* lines 632-638: avgPrdAll, avgPrd1Spad, zppPrd
OptimalPeriod(args) ==
    LET avgPrdAll == RatDiv(RatInt(1), avgTcrAllOf(args.allPdcsZppData))
        avgPrd1Spad == RatMul(avgPrdAll, RatInt(args.nSpad))
    IN  RatDiv(avgPrd1Spad, RatInt(2))

\* no call of getZppOptimalPeriod is prepared
NoArgs == [allPdcsZppData |-> <<>>, nSpad |-> 1]

--------------------------------------------------------------------------
(* Command sessions: the scripts *)

\* a call of a script: the function and its arguments
Call(f, args) == [f |-> f, args |-> args]

runPrint(cmd) == Call("runPrint", <<cmd>>)

\* fsm_config of initExample (zynqCtlPdcRoutines.py:335-348)
fsm_config_initExample ==
    <<<<"TOUT", 20528>>, <<"FEND", 33280>>, <<"FTX1", 128>>, <<"FTX0", 34304>>,
      <<"ATX1", 0>>, <<"ATX0", 0>>, <<"SLW1", 0>>, <<"SLW0", 0>>,
      <<"FST1", 128>>, <<"FST0", 34304>>, <<"FACQ", 7>>, <<"FSMM", 273>>>>

\* fsm_config of _apply_config (validatePDCCommunication.py:80-93)
fsm_config_validate ==
    <<<<"TOUT", 21503>>, <<"FEND", 33280>>, <<"FTX1", 128>>, <<"FTX0", 34304>>,
      <<"ATX1", 0>>, <<"ATX0", 0>>, <<"SLW1", 0>>, <<"SLW0", 0>>,
      <<"FST1", 128>>, <<"FST0", 34304>>, <<"FACQ", 7>>, <<"FSMM", 273>>>>

\* current_pdc_setting of _apply_config, in the order apply() writes it
\* (pdcHelper.py:118-133; the defaults of lines 87-100, PIXL, DBGC, FIFO and
\* DTXC as lines 102-105 of validatePDCCommunication.py set them)
current_pdc_setting ==
    <<<<"PIXL", 4354>>, <<"ANLG", 0>>, <<"STHH", 0>>, <<"STHL", 8191>>,
      <<"ACQA", 5170>>, <<"ACQB", 522>>, <<"DBGC", 32768>>, <<"FIFO", 4479>>,
      <<"DTXC", 204>>, <<"OUTD", 130>>, <<"OUTF", 780>>, <<"OUTC", 986>>,
      <<"TRGC", 0>>>>

\* measCntRate: the commands, the wait for the result, the reading of the result
measCntRate(spadEnPattern, time, target) ==
    <<Call("measCntRate", <<spadEnPattern, time>>), Call("waitForH5File", <<>>),
      Call("getPdcZPP", <<target>>)>>

\* one turn of the loop over the SPADs (getSpadTcrUcrCcrUsingFlag.py:711-744):
\* spadEnPattern = 0x1<<iSPAD
SweepBody(iSPAD) ==
    <<Call("setZppModule", <<"measTime">>)>>
    \o measCntRate(Shl(1, iSPAD), "measTime", "zppDataForOptimalPrd")
    \o <<Call("getZppOptimalPeriod", <<>>), Call("setZppModule", <<"zppPrd">>)>>
    \o measCntRate(Shl(1, iSPAD), "zppPrd*nZppCycles", "ZPP")
    \o <<Call("newData", <<iSPAD>>)>>

\* the turns taken from the last SPAD down to SPAD 0
RECURSIVE Sweep_Descending(_)
Sweep_Descending(n) ==
    IF n = 0 THEN <<>> ELSE SweepBody(n - 1) \o Sweep_Descending(n - 1)

\* for iSPAD in range(0, icp.nSpad): the turns for the SPADs 0 .. n-1
RECURSIVE Sweep(_)
Sweep(n) == IF n = 0 THEN <<>> ELSE Sweep(n - 1) \o SweepBody(n - 1)

\* getSpadTcrUcrCcrUsingFlag.py
getSpadTcrUcrCcrUsingFlag ==
    <<Call("zynq.init", <<>>),
      Call("initCtlPdcFromClient", <<1>>),
      Call("setSysClkPrd", <<>>),
      Call("resetCtl", <<>>),
      Call("setCtlPacket", <<"A", 0, 0, 247>>),
      Call("setDelay", <<>>),
      Call("checkPowerGood", <<>>),
      Call("setCfgRtnEn", <<>>),
      Call("preparePDC", <<>>),
      runPrint(ctlCmd("MODE_CFG")),
      runPrint(pdcCfg("PIXL", Shl(0, 13) + Shl(0, 12) + Shl(1, 8) + Shl(0, 4) + Shl(0, 1))),
      runPrint(Cmd("pdcTime", "--hold 15.0 --rech 4.0 --flag 2.0 -g", -1)),
      runPrint(Cmd("pdcTime", "-g", -1)),
      runPrint(pdcCfg("ANLG", 0)),
      runPrint(pdcCfg("OUTD", Low(4, 5) + Shl(Low(4, 5), 6))),
      runPrint(pdcCfg("OUTF", Low(0, 5) + Shl(Low(0, 5), 6))),
      runPrint(pdcCfg("TRGC", 0)),
      runPrint(Cmd("pdcPix", "--dis", -1)),
      Call("validPdcCfg", <<>>),
      runPrint(pdcCfg("OUTC", Low(4, 5) + Shl(Low(4, 5), 6))),
      Call("setZppModule", <<"measTime">>),
      Call("input", <<>>),
      runPrint(ctlCfg("FSMM", 257))>>
    \o measCntRate(AllSpads, "measTime", "allPdcsZppData")
    \o Sweep(MaxSpad)

\* getDsumOnExternal.py
getDsumOnExternal ==
    <<Call("zynq.init", <<>>),
      Call("initCtlPdcFromClient", <<15>>),
      Call("setSysClkPrd", <<>>),
      Call("resetCtl", <<>>),
      Call("setCtlPacket", <<"A", 4096, 0, 256>>),
      runPrint(ctlCfg("TOUT", toutReg)),
      runPrint(ctlCfg("FEND", fendReg)),
      runPrint(ctlCfg("FTX1", ftx1Reg)),
      runPrint(ctlCfg("FTX0", ftx0Reg)),
      runPrint(ctlCfg("ATX1", atx1Reg)),
      runPrint(ctlCfg("ATX0", atx0Reg)),
      runPrint(ctlCfg("SLW1", slw1Reg)),
      runPrint(ctlCfg("SLW0", slw0Reg)),
      runPrint(ctlCfg("FST1", fst1Reg)),
      runPrint(ctlCfg("FST0", fst0Reg)),
      runPrint(ctlCfg("FACQ", facqReg)),
      runPrint(ctlCfg("FSMM", fsmmReg)),
      Call("setDelay", <<>>),
      Call("checkPowerGood", <<>>),
      Call("setCfgRtnEn", <<>>),
      Call("preparePDC", <<>>),
      runPrint(ctlCmd("MODE_CFG")),
      runPrint(pdcCfg("PIXL", Shl(1, 13) + Shl(1, 12) + Shl(1, 8) + Shl(0, 4) + Shl(1, 1))),
      runPrint(Cmd("pdcTime", "--hold 50.0 --rech 10.0 --flag 2.0 -g", -1)),
      runPrint(Cmd("pdcTime", "-g", -1)),
      runPrint(pdcCfg("ANLG", 31)),
      runPrint(pdcCfg("FIFO", BitOr(BitOr(Shl(Low(0, 1), 13), Shl(Low(1, 1), 12)),
                                    BitOr(Shl(Low(0, 2), 8), Low(127, 7))))),
      runPrint(pdcCfg("OUTD", Low(2, 5) + Shl(Low(2, 5), 6))),
      runPrint(pdcCfg("OUTF", Low(0, 5) + Shl(Low(0, 5), 6))),
      runPrint(pdcCfg("TRGC", 0)),
      runPrint(Cmd("pdcPix", "--dis --mode NONE", -1)),
      Call("validPdcCfg", <<>>),
      runPrint(pdcCfg("OUTC", Low(26, 5) + Shl(Low(15, 5), 6))),
      runPrint(Cmd("pdcSpad", "--verbose 3 --ncenter 64 --mode NONE", -1)),
      runPrint(ctlCmd("MODE_ACQ")),
      Call("input", <<>>),
      runPrint(ctlCfg("FSMM", BitOr(fsmmReg, 3))),
      runPrint(ctlCfg("AUXI", auxiReg)),
      runPrint(Cmd("auxOut", "--ch 1 --func 0x17 -g", -1)),
      runPrint(ctlCfg("TMR0", Low(100000000, 16))),
      runPrint(ctlCfg("TMR1", BitOr(32768, Low(Shr(100000000, 16), 16)))),
      Call("inputFinally", <<>>)>>

\* validatePDCCommunication.py: setUpClass with _apply_config, test_00 and
\* tearDownClass (test_01 and test_02 read the open file and send nothing)
validatePDCCommunication ==
    <<Call("zynq.init", <<>>),
      Call("h5Reader", <<>>),
      Call("initCtlPdcFromClient", <<15>>),
      Call("setSysClkPrd", <<>>),
      Call("resetCtl", <<>>),
      Call("setCtlPacket", <<"A", 28935, 0, 256>>),
      Call("setDelay", <<>>),
      Call("setCfgRtnEn", <<>>),
      Call("setupFSM", <<fsm_config_validate>>),
      Call("preparePDC", <<>>),
      Call("setCtlMode", <<"MODE_CFG">>),
      Call("apply", <<current_pdc_setting>>),
      Call("setCtlMode", <<"MODE_ACQ">>),
      Call("startFSM", <<>>),
      Call("test_00_h5file_produced", <<>>),
      Call("tearDownClass", <<>>)>>

\* zynqCtlPdcRoutines.py run as a script: initExample, then validPdcCfg
zynqCtlPdcRoutines ==
    <<Call("initCtlPdcFromClient", <<15>>),
      Call("setSysClkPrd", <<>>),
      Call("resetCtl", <<>>),
      Call("setCtlPacket", <<"A", 0, 0, 0>>),
      Call("setDelay", <<>>),
      Call("setCfgRtnEn", <<>>),
      Call("setupFSM", <<fsm_config_initExample>>),
      Call("preparePDC", <<>>),
      Call("validPdcCfg", <<>>)>>

ScriptNames == {"getSpadTcrUcrCcrUsingFlag", "getDsumOnExternal",
                "validatePDCCommunication", "zynqCtlPdcRoutines"}

Programs ==
    [s \in ScriptNames |->
        CASE s = "getSpadTcrUcrCcrUsingFlag" -> getSpadTcrUcrCcrUsingFlag
          [] s = "getDsumOnExternal" -> getDsumOnExternal
          [] s = "validatePDCCommunication" -> validatePDCCommunication
          [] s = "zynqCtlPdcRoutines" -> zynqCtlPdcRoutines]

\* waitForH5File(timeOutSec=10) and waitForNewFile(timeout_sec=20)
timeOutSec == 10
timeout_sec == 20

\* what "boardInfo --numasic --raw" answers: a 2x2 head or an 8x8 head
NPdcMaxValues == {8, 32}

\* what "ctlCfg -P", "rtnEn -n" and "rtnEn -s" answer
PwrGoodValues == {0, 14, 15}
NCfgRtnEnValues == {4, 8}
CfgRtnEnValues == {0, 1, 3, 15}

\* the counters of the enabled PDC in a result file: AVG = -1 (process() is
\* not called), no count, an empty histogram, and a sample with counts
Samples ==
    {[TOT |-> -1, BIN |-> -1, PRD |-> -1], [TOT |-> 0, BIN |-> 1, PRD |-> 1],
     [TOT |-> 1, BIN |-> 0, PRD |-> 1], [TOT |-> 1, BIN |-> 2, PRD |-> 3]}

--------------------------------------------------------------------------
(* Command sessions: the actions *)

\* the call the script is at
Cur == Programs[script][pc]

At(f) ==
    /\ run = "running"
    /\ script \in ScriptNames
    /\ pc <= Len(Programs[script])
    /\ Cur.f = f

\* the call sends cmds and returns
Go(cmds) ==
    /\ sent' = sent \o cmds
    /\ pc' = pc + 1
    /\ UNCHANGED <<script, run, cause>>

\* the call sends cmds and ends the script (sys.exit() or an exception that
\* nothing catches)
Stop(cmds, c) ==
    /\ sent' = sent \o cmds
    /\ run' = "ending"
    /\ cause' = c
    /\ UNCHANGED <<script, pc>>

\* zynqDataTransfer.init: initNfs ("df", and "ping" when the server is given
\* by name), initDataReader ("pgrep", and the launch when it is not running),
\* initHex (local; it exits when the HDF5 path is not found)
zynqInit ==
    /\ At("zynq.init")
    /\ \E mounted \in BOOLEAN, byName \in BOOLEAN, started \in BOOLEAN, h5Path \in BOOLEAN :
        LET df == <<Cmd("df", "-T | grep /mnt/data", -1)>>
            ping == IF byName THEN <<Cmd("ping", "-c 1 -W 0.1", -1)>> ELSE <<>>
            dataReader == IF started THEN <<Cmd("pgrep", "dataReader", -1)>>
                          ELSE <<Cmd("pgrep", "dataReader", -1),
                                 Cmd("dataReader", "-vvv -c", -1),
                                 Cmd("pgrep", "dataReader", -1)>>
        IN  IF ~mounted
            THEN Stop(df, "initNfs") /\ zynq' = [used |-> TRUE, local |-> FALSE]
            ELSE IF ~h5Path
            THEN /\ Stop(df \o ping \o dataReader, "initHex")
                 /\ zynq' = [used |-> TRUE, local |-> ~started]
            ELSE /\ Go(df \o ping \o dataReader)
                 /\ zynq' = [used |-> TRUE, local |-> ~started]
    /\ UNCHANGED <<icp, status, validAt, zppData, zppPrd, sweepLog, tvars>>
    /\ UNCHANGED <<rvars, zvars>>

\* initCtlPdcFromClient.__init__
initCtlPdcFromClient ==
    /\ At("initCtlPdcFromClient")
    /\ IF ClientBad(clientType)
       THEN Stop(<<>>, "initCtlPdcFromClient") /\ UNCHANGED icp
       ELSE /\ \E n \in NPdcMaxValues :
                 icp' = [nPdcMax |-> n, pdcEnUser |-> Cur.args[1], pwrGood |-> -1]
            /\ Go(<<Cmd("boardInfo", "-l", -1), Cmd("boardInfo", "--numasic --raw", -1)>>)
    /\ UNCHANGED <<zynq, status, validAt, zppData, zppPrd, sweepLog, tvars>>
    /\ UNCHANGED <<rvars, zvars>>

\* what a call that only sends commands leaves alone
Sends == UNCHANGED <<icp, zynq, status, validAt, zppData, zppPrd, tvars, rvars, zvars>>

OnlySends == Sends /\ UNCHANGED sweepLog

\* sweepLog without the files of the directory
Forget(log) == [i \in 1..Len(log) |-> [log[i] EXCEPT !.had = {}]]

\* a call of the sweep, as sweepLog records it; had is the set of the result
\* files that lay complete in the directory when the call was made, kept
\* until the wait of a measurement returns or the next call is made
LoggedAt(f, ch, t, had) ==
    sweepLog' = Append(Forget(sweepLog), [f |-> f, ch |-> ch, t |-> t, had |-> had])

Logged(f, ch, t) == LoggedAt(f, ch, t, {})

\* the files getLastH5 would accept by name and size (lines 226-234)
ReadyFiles(d, sz) == {p \in Range(d) : NameReady(p) /\ NotEmpty(p, sz)}

setSysClkPrd == At("setSysClkPrd") /\ Go(setSysClkPrdCmds) /\ OnlySends

resetCtl == At("resetCtl") /\ Go(resetCtlCmds) /\ OnlySends

setCtlPacket ==
    /\ At("setCtlPacket")
    /\ Go(setCtlPacketCmds(Cur.args[1], Cur.args[2], Cur.args[3], Cur.args[4]))
    /\ OnlySends

setDelay ==
    /\ At("setDelay")
    /\ \E numLines \in 0..MaxLines : Go(setDelayCmds(numLines))
    /\ OnlySends

checkPowerGood ==
    /\ At("checkPowerGood")
    /\ \E pwrGood \in PwrGoodValues :
        /\ icp' = [icp EXCEPT !.pwrGood = pwrGood]
        /\ IF PowerBad(pwrGood, icp.pdcEnUser)
           THEN Stop(<<Cmd("ctlCfg", "-P", -1)>>, "checkPowerGood")
           ELSE Go(<<Cmd("ctlCfg", "-P", -1)>>)
    /\ UNCHANGED <<zynq, status, validAt, zppData, zppPrd, sweepLog, tvars, rvars, zvars>>

setCfgRtnEn ==
    /\ At("setCfgRtnEn")
    /\ \E n \in NCfgRtnEnValues, s \in CfgRtnEnValues :
        IF setCfgRtnEnExits(icp, n, s)
        THEN Stop(setCfgRtnEnCmds(icp, n), "setCfgRtnEn")
        ELSE Go(setCfgRtnEnCmds(icp, n))
    /\ OnlySends

preparePDC == At("preparePDC") /\ Go(preparePDCCmds(icp)) /\ OnlySends

setCtlMode == At("setCtlMode") /\ Go(<<ctlCmd(Cur.args[1])>>) /\ OnlySends

setupFSM == At("setupFSM") /\ Go(setupFSMCmds(Cur.args[1])) /\ OnlySends

startFSM == At("startFSM") /\ Go(<<ctlCmd("FSM_START")>>) /\ OnlySends

\* pdc_setting.apply
apply == At("apply") /\ Go(applyCmds(Cur.args[1])) /\ OnlySends

\* a command the script sends itself (client.run, runPrint, runReturnSplitInt)
runPrintCmd == At("runPrint") /\ Go(<<Cur.args[1]>>) /\ OnlySends

\* initCtlPdcFromClient.validPdcCfg
validPdcCfg ==
    /\ At("validPdcCfg")
    /\ \E out \in StatusOutputs :
        /\ status' = out
        /\ IF validPdcCfgExits(out)
           THEN Stop(<<statusRead>>, "validPdcCfg") /\ validAt' = validAt
           ELSE Go(<<statusRead>>) /\ validAt' = Len(sent) + 1
    /\ UNCHANGED <<icp, zynq, zppData, zppPrd, sweepLog, tvars>>
    /\ UNCHANGED <<rvars, zvars>>

\* input("Press [enter] key to continue") in try / except KeyboardInterrupt:
\* sys.exit()
input ==
    /\ At("input")
    /\ \E key \in {"enter", "KeyboardInterrupt"} :
        IF key = "enter" THEN Go(<<>>) ELSE Stop(<<>>, "KeyboardInterrupt")
    /\ OnlySends

\* the last prompt of getDsumOnExternal.py (lines 486-493): whatever the key,
\* finally sends "stop" and calls sys.exit()
inputFinally ==
    /\ At("inputFinally")
    /\ Stop(<<Cmd("stop", "", -1)>>, "sys.exit")
    /\ OnlySends

\* setZppModule(client, sysClkPrdSec=icp.sysClkPrd, onTimeSec, offTimeSec=icp.sysClkPrd)
setZppModule ==
    /\ At("setZppModule")
    /\ LET onTimeSec == IF Cur.args[1] = "measTime" THEN measTime ELSE zppPrd
       IN  /\ Go(setZppModuleCmds(ClkCycles(onTimeSec), ClkCycles(sysClkPrd)))
           /\ Logged("setZppModule", -1, onTimeSec)
    /\ Sends

\* measCntRate(spadEnPattern, measTime), lines 646-662: the commands, and
\* zp.pausePlot(pauseTime=measTime) between RSTN_ZPP and PACK_TRG_A; measTime
\* is 0.1 (line 722) or zppPrd*nZppCycles (line 738)
measCntRateSend ==
    /\ At("measCntRate")
    /\ LET pauseTime == IF Cur.args[2] = "measTime" THEN measTime
                        ELSE RatMul(zppPrd, RatInt(nZppCycles))
       IN  /\ Go(measCntRateCmds(Cur.args[1]))
           /\ LoggedAt("measCntRate", Cur.args[1], pauseTime, ReadyFiles(dir, size))
    /\ Sends

\* zp.newData(iSPAD, ZPP), line 741
newData ==
    /\ At("newData")
    /\ Go(<<>>)
    /\ Logged("newData", Cur.args[1], Sentinel)
    /\ Sends

\* the script after a turn of the loop of waitForH5File: sys.exit() (line 620)
\* passes through measCntRate and through the try of the script, whose except
\* clause names KeyboardInterrupt only
RunAfterWait_Resume(st) == "running"

RunAfterWait(st) == IF st = "exited" THEN "ending" ELSE "running"

\* db = waitForH5File(): t0 is taken
SessWaitStart ==
    /\ At("waitForH5File")
    /\ waitForH5FileStart(timeOutSec)
    /\ UNCHANGED <<svars, tvars, zvars>>

\* db = waitForH5File(): one turn of the loop
SessWaitIter ==
    /\ At("waitForH5File")
    /\ waitForH5FileIter
    /\ pc' = IF w'.st = "returned" THEN pc + 1 ELSE pc
    /\ run' = RunAfterWait(w'.st)
    /\ cause' = IF w'.st = "exited" THEN "waitForH5File" ELSE cause
    /\ sweepLog' = IF w'.st = "returned" THEN Forget(sweepLog) ELSE sweepLog
    /\ UNCHANGED <<script, sent, icp, zynq, status, validAt, zppData, zppPrd, tvars, zvars>>

\* the operator's Ctrl-C while waitForH5File polls: KeyboardInterrupt passes
\* through measCntRate to the except clause of the script (lines 756-757),
\* which prints; the finally clause prints (759-762) and the script is over
SessInterrupt ==
    /\ At("waitForH5File")
    /\ w.kind = "h5file" /\ w.st = "polling"
    /\ Stop(<<>>, "KeyboardInterrupt")
    /\ UNCHANGED <<icp, zynq, status, validAt, zppData, zppPrd, sweepLog, tvars, rvars, zvars>>

\* measCntRate, lines 665-682: db.h5Open(), getPdcZPP and process() for the
\* enabled PDC, db.h5Close(); process() may raise (line 126 of h5Reader.py)
getPdcZPP ==
    /\ At("getPdcZPP")
    /\ \E z \in Samples :
        IF TcrRaises(z)
        THEN Stop(<<>>, "ZeroDivisionError") /\ UNCHANGED zppData
        ELSE /\ Go(<<>>)
             /\ zppData' = IF Cur.args[1] = "zppDataForOptimalPrd"
                           THEN [allPdcsZppData |-> <<Entry(TcrOf(z))>>, nSpad |-> 1]
                           ELSE zppData
    /\ dir' = DirAfterClose(db, dir)
    /\ size' = SizeAfterClose(db, dir, size)
    /\ db' = ReaderAfterClose(db, dir)
    /\ UNCHANGED <<parsedH5, w, elapsed, retLog, skipped>>
    /\ UNCHANGED <<icp, zynq, status, validAt, zppPrd, sweepLog, tvars, zvars>>

\* zppPrd = getZppOptimalPeriod(zppDataForOptimalPrd, nSpad=1), line 728: the
\* ZeroDivisionError of line 632 is caught nowhere
getZppOptimalPeriod ==
    /\ At("getZppOptimalPeriod")
    /\ IF OptimalPeriodRaises(zppData)
       THEN Stop(<<>>, "ZeroDivisionError") /\ UNCHANGED <<zppPrd, sweepLog>>
       ELSE /\ Go(<<>>)
            /\ zppPrd' = OptimalPeriod(zppData)
            /\ Logged("getZppOptimalPeriod", -1, zppPrd')
    /\ UNCHANGED <<icp, zynq, status, validAt, zppData, tvars, rvars, zvars>>

\* cls._reader = h5Reader(deleteAfter=True, hfAbsPath=...) of setUpClass
h5ReaderNew ==
    /\ At("h5Reader")
    /\ NewReader(TRUE)
    /\ pc' = pc + 1
    /\ UNCHANGED <<script, sent, run, cause, icp, zynq, status, validAt, zppData, zppPrd, sweepLog, tvars, zvars>>

\* test_00_h5file_produced, lines 122-124: the wait starts when the reader
\* holds no file; then h5Open()
test_00_Start ==
    /\ At("test_00_h5file_produced")
    /\ w.st # "polling"
    /\ IF db.hfFile = NoFile
       THEN /\ waitForNewFileStart(timeout_sec)
            /\ pc' = IF w'.st = "returned" THEN pc + 1 ELSE pc
       ELSE /\ pc' = pc + 1
            /\ db' = IF db.hfFile \in Range(dir) THEN [db EXCEPT !.h5 = TRUE] ELSE db
            /\ UNCHANGED <<dir, size, parsedH5, w, elapsed, retLog, skipped>>
    /\ UNCHANGED <<script, sent, run, cause, icp, zynq, status, validAt, zppData, zppPrd, sweepLog, tvars, zvars>>

\* test_00_h5file_produced: one turn of the loop of waitForNewFile
test_00_Iter ==
    /\ At("test_00_h5file_produced")
    /\ waitForNewFileIter
    /\ pc' = IF w'.st = "returned" THEN pc + 1 ELSE pc
    /\ UNCHANGED <<script, sent, run, cause, icp, zynq, status, validAt, zppData, zppPrd, sweepLog, tvars, zvars>>

\* tearDownClass: h5Close(), resetCtl(), zynqDataTransfer.__del__()
tearDownClass ==
    /\ At("tearDownClass")
    /\ Go(resetCtlCmds \o killCmds(zynq))
    /\ dir' = DirAfterClose(db, dir)
    /\ size' = SizeAfterClose(db, dir, size)
    /\ db' = ReaderAfterClose(db, dir)
    /\ UNCHANGED <<parsedH5, w, elapsed, retLog, skipped>>
    /\ UNCHANGED <<icp, zynq, status, validAt, zppData, zppPrd, sweepLog, tvars, zvars>>

\* the script ran to its last line
Complete ==
    /\ run = "running"
    /\ script \in ScriptNames
    /\ pc = Len(Programs[script]) + 1
    /\ run' = "ending"
    /\ cause' = "completed"
    /\ UNCHANGED <<script, pc, sent, icp, zynq, status, validAt, zppData, zppPrd, sweepLog, tvars>>
    /\ UNCHANGED <<rvars, zvars>>

\* the interpreter ends: the destructors of the reader (h5Close) and of
\* zynqDataTransfer (kill of the dataReader this script started); Python does
\* not promise that __del__ runs at exit, so the kill may not be sent
Teardown ==
    /\ run = "ending"
    /\ run' = "ended"
    /\ \E delRuns \in BOOLEAN :
        sent' = sent \o (IF delRuns THEN killCmds(zynq) ELSE <<>>)
    /\ dir' = DirAfterClose(db, dir)
    /\ size' = SizeAfterClose(db, dir, size)
    /\ db' = ReaderAfterClose(db, dir)
    /\ UNCHANGED <<parsedH5, w, elapsed, retLog, skipped>>
    /\ UNCHANGED <<script, pc, cause, icp, zynq, status, validAt, zppData, zppPrd, sweepLog, tvars, zvars>>

\* the names the conversion pipeline has not used yet
Fresh == {i \in 1..Len(SessionFiles) :
             SessionFiles[i] \notin Range(dir) /\ SessionFiles[i] \notin Range(parsedH5)}

\* the result files made so far (a claimed file is deleted and stays in parsedH5)
Produced == Len(SessionFiles) - Cardinality(Fresh)

\* the commands that make the controller send a data packet
PacketCmds == {ctlCmd("PACK_TRG_A"), ctlCmd("FSM_START")}

\* the commands sent so far that make the controller send a data packet
Packets == Cardinality({i \in 1..Len(sent) :
                           sent[i] \in PacketCmds})

\* the conversion pipeline creates a result file while a script runs: one for
\* every data packet of the controller, and one file that no
\* command of the session asked for (left from an earlier run); at most
\* MaxBacklog files wait in the directory
SessFileAppears ==
    /\ run = "running"
    /\ Produced <= Packets
    /\ Len(dir) < MaxBacklog
    /\ Fresh # {}
    /\ \E sz \in {0, 1} : FileAppears(SessionFiles[Min(Fresh)], sz)
    /\ UNCHANGED <<svars, tvars, zvars>>

SessFileWritten ==
    /\ run = "running"
    /\ \E p \in Range(dir) : FileWritten(p)
    /\ UNCHANGED <<svars, tvars, zvars>>

\* the time runs past the deadline of the wait in progress (a wait reads the
\* clock only to compare it with its deadline)
SessTick ==
    /\ run = "running"
    /\ Waiting
    /\ elapsed <= w.timeout
    /\ elapsed' = w.timeout + 1
    /\ UNCHANGED <<dir, size, parsedH5, db, w, retLog, skipped>>
    /\ UNCHANGED <<svars, tvars, zvars>>

\* the PDCs and the SPADs of the tcrPlotter of the model
TcrPdcs == 0..1
TcrSpads == 0..(MaxSpad - 1)

\* tcrPlotter.__init__ (getSpadTcrUsingFlag.py:260-280); spadEn is the word
\* of ones, 0xFFFFFFFFFFFFFFFF for the 64 SPADs of a PDC
NewTcrPlotter ==
    [pdcValid |-> [iPdc \in TcrPdcs |-> FALSE],
     spadTcr |-> [iPdc \in TcrPdcs |-> [iSpad \in TcrSpads |-> 0]],
     spadPop |-> [iPdc \in TcrPdcs |-> <<>>],
     spadEn |-> [iPdc \in TcrPdcs |-> 2^MaxSpad - 1],
     spadCumulHis |-> <<>>,
     given |-> [iPdc \in TcrPdcs |-> [v \in 0..2 |-> 0]],
     n |-> 0,
     last |-> [iPdc |-> -1, iSpad |-> -1, avg |-> -1, avgTh |-> -1]]

\* packetSettings.__init__ (zynqCtlPdcRoutines.py:28-32)
packetSettings == [SCS |-> 0, SCD |-> 0, SPD |-> 0]

\* no value given for an argument (None)
NoArg == -1

\* PACK_A and PACK_B after initCtlPdcFromClient.__init__ (lines 58-59)
NewPack ==
    [A |-> packetSettings, B |-> packetSettings, n |-> 0,
     last |-> [bank |-> "none", SCS |-> NoArg, SCD |-> NoArg, SPD |-> NoArg],
     old |-> [A |-> packetSettings, B |-> packetSettings],
     cmds |-> <<>>]

\* no call of a routine was made
NoOut == [cmds |-> <<>>, exits |-> FALSE, done |-> FALSE]

\* no routine is called and the packet settings are new
CallIdle ==
    /\ callArgs = [f |-> "none", args |-> <<>>]
    /\ callOut = NoOut
    /\ pack = NewPack

\* no register word is packed and the tcrPlotter is new
PackIdle ==
    /\ packArgs = [reg |-> "none", vals |-> <<>>]
    /\ regWord = -1
    /\ tp = NewTcrPlotter
    /\ CallIdle

\* no call of setPdcTimeReg is made
TimeIdle ==
    /\ timeArgs = [hold |-> 0, rech |-> 0, flag |-> 0]
    /\ REG = -1
    /\ PackIdle

\* no script runs
SessIdle ==
    /\ script = "none"
    /\ pc = 1
    /\ sent = <<>>
    /\ run = "ended"
    /\ cause = "none"
    /\ icp = [nPdcMax |-> 0, pdcEnUser |-> 0, pwrGood |-> -1]
    /\ zynq = [used |-> FALSE, local |-> FALSE]
    /\ status = NoOutput
    /\ validAt = -1
    /\ zppData = NoArgs
    /\ zppPrd = Sentinel
    /\ sweepLog = <<>>

\* a script starts
SessInit ==
    /\ script \in ScriptNames
    /\ pc = 1
    /\ sent = <<>>
    /\ run = "running"
    /\ cause = "none"
    /\ icp = [nPdcMax |-> 0, pdcEnUser |-> 0, pwrGood |-> -1]
    /\ zynq = [used |-> FALSE, local |-> FALSE]
    /\ status = NoOutput
    /\ validAt = -1
    /\ zppData = NoArgs
    /\ zppPrd = Sentinel
    /\ sweepLog = <<>>
    /\ RdvIdle
    /\ ZppIdle
    /\ TimeIdle

\* the measurements getZppOptimalPeriod is called with in the model: no
\* object, an object without TCR, and objects with a TCR of 0, 1/2, 1, ...
OptEntries == {None, Entry(Sentinel)} \cup {Entry(Rat(k, 2)) : k \in 0..MaxCount}

RECURSIVE SeqsUpTo(_, _)
SeqsUpTo(S, n) ==
    IF n = 0 THEN {<<>>}
    ELSE LET shorter == SeqsUpTo(S, n - 1)
         IN  shorter \cup {Append(q, e) : q \in shorter, e \in S}

\* a call of getZppOptimalPeriod on its own is about to be made
OptInit ==
    /\ script = "none"
    /\ pc = 1
    /\ sent = <<>>
    /\ run = "running"
    /\ cause = "none"
    /\ icp = [nPdcMax |-> 0, pdcEnUser |-> 0, pwrGood |-> -1]
    /\ zynq = [used |-> FALSE, local |-> FALSE]
    /\ status = NoOutput
    /\ validAt = -1
    /\ zppData \in [allPdcsZppData : SeqsUpTo(OptEntries, MaxPdc), nSpad : {1, 2}]
    /\ zppPrd = Sentinel
    /\ sweepLog = <<>>
    /\ RdvIdle
    /\ ZppIdle
    /\ TimeIdle

\* the call of getZppOptimalPeriod returns or raises
OptCall ==
    /\ script = "none"
    /\ run = "running"
    /\ run' = "ended"
    /\ IF OptimalPeriodRaises(zppData)
       THEN cause' = "ZeroDivisionError" /\ UNCHANGED zppPrd
       ELSE cause' = "returned" /\ zppPrd' = OptimalPeriod(zppData)
    /\ UNCHANGED <<script, pc, sent, icp, zynq, status, validAt, zppData, sweepLog, tvars, rvars, zvars>>

OptNext == OptCall

SessNext ==
    \/ zynqInit
    \/ initCtlPdcFromClient
    \/ setSysClkPrd
    \/ resetCtl
    \/ setCtlPacket
    \/ setDelay
    \/ checkPowerGood
    \/ setCfgRtnEn
    \/ preparePDC
    \/ setCtlMode
    \/ setupFSM
    \/ startFSM
    \/ apply
    \/ runPrintCmd
    \/ validPdcCfg
    \/ input
    \/ inputFinally
    \/ setZppModule
    \/ measCntRateSend
    \/ newData
    \/ SessWaitStart
    \/ SessWaitIter
    \/ SessInterrupt
    \/ getPdcZPP
    \/ getZppOptimalPeriod
    \/ h5ReaderNew
    \/ test_00_Start
    \/ test_00_Iter
    \/ tearDownClass
    \/ Complete
    \/ Teardown
    \/ SessFileAppears
    \/ SessFileWritten
    \/ SessTick

--------------------------------------------------------------------------
(* One call of setPdcTimeReg *)

\* the values within the widths of the fields, and the hold = 150 that
\* validatePDCCommunication.py passes (line 101)
HoldValues == 0..63 \cup {150}
RechValues == 0..31
FlagValues == 0..31

\* values beyond the widths of the fields, and negative ones
WideValues == {-28, -1, 64, 100, 2047}

\* a call of setPdcTimeReg is about to be made
TimeInit ==
    /\ timeArgs \in [hold : HoldValues \cup WideValues,
                     rech : RechValues \cup WideValues,
                     flag : FlagValues \cup WideValues]
    /\ REG = -1
    /\ PackIdle
    /\ SessIdle
    /\ RdvIdle
    /\ ZppIdle

\* the call returns REG
setPdcTimeRegCall ==
    /\ REG = -1
    /\ REG' = setPdcTimeReg(timeArgs.hold, timeArgs.rech, timeArgs.flag)
    /\ UNCHANGED <<timeArgs, packArgs, regWord, tp, cvars, svars, rvars, zvars>>

TimeNext == setPdcTimeRegCall

--------------------------------------------------------------------------
(* tcrPlotter.newData (getSpadTcrUsingFlag.py:443-470) *)

\* Python's ^ on the non-negative integers
BitXor(a, b) == BitOr(a, b) - BitAnd(a, b)

\* list.append(x) without the sort
SortedInsert_Append(q, x) == Append(q, x)

\* list.append(x) followed by list.sort()
RECURSIVE SortedInsert(_, _)
SortedInsert(q, x) ==
    IF q = <<>> THEN <<x>>
    ELSE IF x <= q[1] THEN <<x>> \o q
    ELSE <<q[1]>> \o SortedInsert(Tail(q), x)

\* the averages measCntRate hands over, in counts per second: the -1 of lines
\* 601-602 when the PDC gave no result
AvgValues == {-1, 0, 1, 2}

\* tp.newData(iPdc, iSpad, avg, avgTh): for avg < 0 lines 448-451 clear
\* pdcValid[iPdc], set spadEn[iPdc] = 0 and return; spad100, spadCumulHis and
\* spadCumul100 are plot data computed from spadPop
tcrNewData(iPdc, iSpad, avg, avgTh) ==
    /\ tp.n < MaxCount
    /\ LET called == [tp EXCEPT !.n = tp.n + 1,
                                !.last = [iPdc |-> iPdc, iSpad |-> iSpad,
                                          avg |-> avg, avgTh |-> avgTh]]
       IN  tp' = IF avg < 0
                 THEN [called EXCEPT !.pdcValid[iPdc] = FALSE,
                                     !.spadEn[iPdc] = 0]
                 ELSE [called EXCEPT
                          !.pdcValid[iPdc] = TRUE,
                          !.spadTcr[iPdc][iSpad] = avg,
                          !.spadPop[iPdc] = SortedInsert(tp.spadPop[iPdc], avg),
                          !.spadCumulHis = SortedInsert(tp.spadCumulHis, avg),
                          !.given[iPdc][avg] = tp.given[iPdc][avg] + 1,
                          !.spadEn[iPdc] = IF avg > avgTh
                                           THEN BitXor(tp.spadEn[iPdc], Shl(1, iSpad))
                                           ELSE BitOr(tp.spadEn[iPdc], Shl(1, iSpad))]
    /\ UNCHANGED <<timeArgs, REG, packArgs, regWord, cvars, svars, rvars, zvars>>

\* a tcrPlotter has just been made
TcrInit ==
    /\ tp = NewTcrPlotter
    /\ CallIdle
    /\ packArgs = [reg |-> "none", vals |-> <<>>]
    /\ regWord = -1
    /\ timeArgs = [hold |-> 0, rech |-> 0, flag |-> 0]
    /\ REG = -1
    /\ SessIdle
    /\ RdvIdle
    /\ ZppIdle

TcrNext ==
    \E iPdc \in TcrPdcs, iSpad \in TcrSpads, avg \in AvgValues, avgTh \in AvgValues :
        tcrNewData(iPdc, iSpad, avg, avgTh)

--------------------------------------------------------------------------
(* One packing of a register word *)

\* the values given to the fields in the model: the values of the script are
\* among them (0, 1, 2, 7, 48, 100, 128, and -28 for the delay
\* nAcqSamplesFast - nAcqSamplesHistory), with values beyond every width
PackValues == {-28, -1, 0, 1, 2, 7, 48, 100, 128, 255, 256, 1023, 1030}

\* the sequences of n values
PackVals(n) == [1..n -> PackValues]

\* a register word is about to be computed
PackInit ==
    /\ \E r \in PackRegs : packArgs \in [reg : {r}, vals : PackVals(Len(LayoutOf(r)))]
    /\ regWord = -1
    /\ timeArgs = [hold |-> 0, rech |-> 0, flag |-> 0]
    /\ REG = -1
    /\ tp = NewTcrPlotter
    /\ CallIdle
    /\ SessIdle
    /\ RdvIdle
    /\ ZppIdle

\* the word is computed
packCall ==
    /\ packArgs.reg \in PackRegs
    /\ regWord = -1
    /\ regWord' = IF packArgs.reg = "TIME"
                  THEN setPdcTimeReg(packArgs.vals[1], packArgs.vals[2], packArgs.vals[3])
                  ELSE PackWord(FsmLayout[packArgs.reg], packArgs.vals)
    /\ UNCHANGED <<packArgs, timeArgs, REG, tp, cvars, svars, rvars, zvars>>

PackNext == packCall

--------------------------------------------------------------------------
(* One call of a routine that builds commands *)

\* the register names of the dictionaries given to setupFSM in the model:
\* three that setupFSM accepts and two that it does not
DictNames == {"TOUT", "FTX0", "FSMM", "ZPH0", "PIXL"}

\* the dictionaries of at most n entries: a name is the key of one entry
RECURSIVE Dicts(_)
Dicts(n) ==
    IF n = 0 THEN {<<>>}
    ELSE LET shorter == Dicts(n - 1)
         IN  shorter \cup
             {Append(d, <<name, val>>) :
                 d \in {x \in shorter : Len(x) = n - 1},
                 name \in DictNames, val \in {0, 273}}

\* no name is the key of two entries
IsDict(d) == \A i, j \in 1..Len(d) : d[i][1] = d[j][1] => i = j

\* the masks of the PDCs the user enabled, for the call of setCfgRtnEn: none,
\* PDCs below 16 only (0, 4, 0 and 4, 5, 0..15), PDC 16 only, and PDCs of
\* both halves
PdcEnUsers == {0, 1, 16, 17, 32, 65535, 65536, 65537, 65568}

\* the fields of a pdc_setting object (pdcHelper.py:87-100)
PdcRegs == {"PIXL", "TIME", "ANLG", "STHH", "STHL", "ACQA", "ACQB", "DBGC",
            "FIFO", "DTXC", "OUTD", "OUTF", "OUTC", "TRGC"}

\* pdc_setting(): the default of every field (pdcHelper.py:87-100)
pdc_setting ==
    [PIXL |-> 4352, TIME |-> 57054, ANLG |-> 0, STHH |-> 0, STHL |-> 8191,
     ACQA |-> 5170, ACQB |-> 522, DBGC |-> 4557, FIFO |-> 127, DTXC |-> 204,
     OUTD |-> 130, OUTF |-> 780, OUTC |-> 986, TRGC |-> 0]

\* the objects apply is called on: a new object after an assignment to one
\* of its fields
PdcSettings == {[pdc_setting EXCEPT ![reg] = v] : reg \in PdcRegs, v \in {1, 4354}}

\* the calls made in the model
CallInputs ==
    {Call("setupFSM", <<d>>) : d \in {x \in Dicts(MaxCount) : IsDict(x)}}
    \cup {Call("setCfgRtnEn", <<nPdcMax, pdcEnUser, n, s>>) :
              nPdcMax \in NPdcMaxValues, pdcEnUser \in PdcEnUsers,
              n \in NCfgRtnEnValues, s \in 0..3}
    \cup {Call("apply", <<self, "session">>) : self \in PdcSettings}

CallInit ==
    /\ callArgs \in CallInputs
    /\ callOut = NoOut
    /\ pack = NewPack
    /\ timeArgs = [hold |-> 0, rech |-> 0, flag |-> 0]
    /\ REG = -1
    /\ packArgs = [reg |-> "none", vals |-> <<>>]
    /\ regWord = -1
    /\ tp = NewTcrPlotter
    /\ SessIdle
    /\ RdvIdle
    /\ ZppIdle

\* the call returned or ended in sys.exit()
Returned(cmds, exits) ==
    /\ callOut = NoOut
    /\ callOut' = [cmds |-> cmds, exits |-> exits, done |-> TRUE]
    /\ UNCHANGED <<callArgs, pack, timeArgs, REG, packArgs, regWord, tp, svars, rvars, zvars>>

\* icp.setupFSM(cfg_dict)
setupFSMCall ==
    /\ callArgs.f = "setupFSM"
    /\ Returned(setupFSMCmds(callArgs.args[1]), FALSE)

\* icp.setCfgRtnEn() of an object with nPdcMax and pdcEnUser, when "rtnEn -n"
\* answers n and "rtnEn -s" answers s
setCfgRtnEnCall ==
    /\ callArgs.f = "setCfgRtnEn"
    /\ LET c == [nPdcMax |-> callArgs.args[1], pdcEnUser |-> callArgs.args[2]]
           n == callArgs.args[3]
           s == callArgs.args[4]
       IN  Returned(setCfgRtnEnCmds(c, n), setCfgRtnEnExits(c, n, s))

\* the registers pdc_setting.apply writes, in its order (pdcHelper.py:119-131)
applyOrder ==
    <<"PIXL", "ANLG", "STHH", "STHL", "ACQA", "ACQB", "DBGC", "FIFO", "DTXC",
      "OUTD", "OUTF", "OUTC", "TRGC">>

\* self.apply(session): the writes of the command line
applyOf(self) ==
    applyCmds([i \in 1..Len(applyOrder) |-> <<applyOrder[i], self[applyOrder[i]]>>])

\* pdc_setting.apply(self, session)
applyCall ==
    /\ callArgs.f = "apply"
    /\ Returned(applyOf(callArgs.args[1]), FALSE)

CallNext ==
    \/ setupFSMCall
    \/ setCfgRtnEnCall
    \/ applyCall

SpecCall == CallInit /\ [][CallNext]_vars

--------------------------------------------------------------------------
(* initCtlPdcFromClient.setCtlPacket on the stored packet settings *)

\* packetBank (zynqCtlPdcRoutines.py:24-26): BANKA = 0, BANKB = 1
Banks == {0, 1}

\* lines 131-136: PACK_A for BANKA, PACK_B for every other bank
BankName(bank) == IF bank = 0 THEN "A" ELSE "B"

\* the values given for SCS, SCD and SPD in the model; 247 is the SPDA of
\* the scripts (0x00F7)
PacketValues == {NoArg, 0, 247}

\* setCtlPacket storing every argument, None included
Stored_EvenNone(old, SCS, SCD, SPD) == [SCS |-> SCS, SCD |-> SCD, SPD |-> SPD]

\* lines 139-148: the settings of the selected bank after the arguments
\* that are not None are stored
Stored(old, SCS, SCD, SPD) ==
    [SCS |-> IF SCS # NoArg THEN SCS ELSE old.SCS,
     SCD |-> IF SCD # NoArg THEN SCD ELSE old.SCD,
     SPD |-> IF SPD # NoArg THEN SPD ELSE old.SPD]

\* icp.setCtlPacket(bank, SCS, SCD, SPD): the settings are stored and sent
\* (lines 151-154)
setCtlPacketCall(bank, SCS, SCD, SPD) ==
    /\ pack.n < MaxCount
    /\ LET name == BankName(bank)
           new == Stored(pack[name], SCS, SCD, SPD)
       IN  pack' = [pack EXCEPT
                       ![name] = new,
                       !.n = pack.n + 1,
                       !.last = [bank |-> name, SCS |-> SCS, SCD |-> SCD, SPD |-> SPD],
                       !.old = [A |-> pack.A, B |-> pack.B],
                       !.cmds = setCtlPacketCmds(name, new.SCS, new.SCD, new.SPD)]
    /\ UNCHANGED <<callArgs, callOut, timeArgs, REG, packArgs, regWord, tp, svars, rvars, zvars>>

PacketInit == TimeIdle /\ SessIdle /\ RdvIdle /\ ZppIdle

PacketNext ==
    \E bank \in Banks, SCS \in PacketValues, SCD \in PacketValues, SPD \in PacketValues :
        setCtlPacketCall(bank, SCS, SCD, SPD)

SpecPacket == PacketInit /\ [][PacketNext]_vars

--------------------------------------------------------------------------
(* Specifications *)

ZppInit == ZppIdle /\ RdvIdle /\ SessIdle /\ TimeIdle

RdvInit == RdvIdle /\ ZppIdle /\ SessIdle /\ TimeIdle

SpecTime == TimeInit /\ [][TimeNext]_vars

SpecPack == PackInit /\ [][PackNext]_vars

SpecTcr == TcrInit /\ [][TcrNext]_vars

SpecZpp == ZppInit /\ [][ZppNext]_vars

SpecRdv == RdvInit /\ [][RdvNext]_vars

SpecSession == SessInit /\ [][SessNext]_vars

SpecOpt == OptInit /\ [][OptNext]_vars

\* the scheduler runs the loops of the waits and the clock advances
FairRdv ==
    /\ SpecRdv
    /\ WF_vars(Tick /\ UNCHANGED <<zvars, svars, tvars>>)
    /\ WF_vars(waitForNewFileIter /\ UNCHANGED <<zvars, svars, tvars>>)
    /\ WF_vars(waitForH5FileIter /\ UNCHANGED <<zvars, svars, tvars>>)


--------------------------------------------------------------------------
(* Claims about the ZPP reducer, checked under SpecZpp *)

\* process() was called on the object (it returned or raised)
Processed == zpc # "new"

\* C8: sentinel cascade.  For every sample with BIN <= 0 or PRD <= 0 (BIN = 0,
\* PRD = 0 and the not-available value -1 included) process() returns and
\* reports TCR = -1, and with it UCR = -1 and CCR = -1.
C8_SentinelCascade ==
    (Processed /\ (zpp.BIN <= 0 \/ zpp.PRD <= 0)) =>
        /\ zpc = "done"
        /\ zpp.TCR = Sentinel
        /\ zpp.UCR = Sentinel
        /\ zpp.CCR = Sentinel

\* C9: the reducer never throws.  For every sample whose counters are
\* non-negative integers or -1, process() completes normally, and a TCR it
\* cannot compute (a counter missing or zero) is reported as -1.
C9_NeverThrows ==
    Processed =>
        /\ zexc = "none"
        /\ zpc = "done"
        /\ (zpp.TOT = -1 \/ zpp.BIN <= 0 \/ zpp.PRD <= 0) => zpp.TCR = Sentinel

\* the raw formula of line 131 is defined on the sample and exceeds TCR
RawUcrAboveTcr ==
    /\ TcrOf(zpp) # Sentinel
    /\ zpp.NUL > 0
    /\ RatGt(UcrRaw(zpp), TcrOf(zpp))

\* C10: UCR bound.  Whenever the raw formula -ln(NUL/BIN)/(clockPeriod*PRD)
\* yields more than TCR, process() reports UCR = -1; after process() the
\* reported UCR is never greater than the reported TCR.
C10_UcrBound ==
    zpc = "done" =>
        /\ RawUcrAboveTcr => zpp.UCR = Sentinel
        /\ ~RatGt(zpp.UCR, zpp.TCR)

\* C10 witness: process() returned on a sample whose raw UCR exceeds its TCR
C10_Witness ==
    /\ zpc = "done"
    /\ RawUcrAboveTcr
    /\ zpp.TCR # Sentinel
    /\ zpp.UCR = Sentinel

\* C11: sentinel implications.  After every call of process(): when UCR is
\* -1 then CCR is -1, and when TCR is -1 then UCR and CCR are -1 (a call that
\* raised has assigned nothing, the three values are still the -1 of __init__).
C11_SentinelImplies ==
    Processed =>
        /\ zpp.UCR = Sentinel => zpp.CCR = Sentinel
        /\ zpp.TCR = Sentinel => (zpp.UCR = Sentinel /\ zpp.CCR = Sentinel)

\* C11 witness: process() returned with a TCR on a sample without UCR
C11_Witness ==
    /\ zpc = "done"
    /\ zpp.TCR # Sentinel /\ zpp.TCR.n > 0
    /\ zpp.UCR = Sentinel
    /\ zpp.CCR = Sentinel

\* a reported value is a number that is not negative, or the sentinel
NonNegOrSentinel(v) == v = Sentinel \/ v.n >= 0

\* C12: non-negative or sentinel.  For every sample whose counters are
\* non-negative integers or -1 (NUL > BIN and TOT = 0 included), each of TCR,
\* UCR and CCR after process() returned is a number >= 0 or exactly -1.
C12_NonNegativeOrSentinel ==
    zpc = "done" =>
        /\ NonNegOrSentinel(zpp.TCR)
        /\ NonNegOrSentinel(zpp.UCR)
        /\ NonNegOrSentinel(zpp.CCR)

\* the counters other than NUL hold values a TCR can be computed from
OtherwiseValid == zpp.BIN > 0 /\ zpp.PRD > 0 /\ zpp.TOT >= 0

\* C13: NUL = 0.  Whenever NUL = 0 and the other counters are valid,
\* process() reports UCR = -1 and CCR = -1, and TCR is computed.
C13_NulZero ==
    (zpc = "done" /\ zpp.NUL = 0 /\ OtherwiseValid) =>
        /\ zpp.UCR = Sentinel
        /\ zpp.CCR = Sentinel
        /\ zpp.TCR # Sentinel
        /\ zpp.TCR.n >= 0

\* C13 witness: process() returned on a sample with NUL = 0 and counts
C13_Witness ==
    /\ zpc = "done"
    /\ zpp.NUL = 0
    /\ OtherwiseValid /\ zpp.TOT > 0
    /\ zpp.UCR = Sentinel

\* the sample of the example: BIN = 1000, TOT = 500, PRD = 100
Example1 == [TOT |-> 500, BIN |-> 1000, PRD |-> 100]

\* C14: TCR formula.  For every sample with BIN > 0, PRD > 0 and TOT
\* available process() reports TCR = TOT*10^8/(BIN*PRD), that is
\* TCR/10^8 = TOT/(BIN*PRD); for BIN = 1000, TOT = 500, PRD = 100 line 126
\* gives 500000.
C14_TcrFormula ==
    /\ (zpc = "done" /\ zpp.BIN > 0 /\ zpp.PRD > 0 /\ zpp.TOT # -1) =>
          RatDiv(zpp.TCR, RatInt(ClkHz)) = Rat(zpp.TOT, zpp.BIN * zpp.PRD)
    /\ TcrValue(Example1) = RatInt(500000)

\* C14 witness: process() returned a TCR that is not a whole number
C14_Witness ==
    /\ zpc = "done"
    /\ zpp.BIN > 1 /\ zpp.PRD > 1 /\ zpp.TOT > 0
    /\ zpp.TCR.n > 0 /\ zpp.TCR.d > 1


--------------------------------------------------------------------------
(* Claims about the result rendezvous, checked under SpecRdv and FairRdv *)

\* file p of the watched directory may be claimed: a .h5 file without the
\* not-ready marker, with content, not yet in the seen list
Eligible(p) ==
    /\ p \in Range(dir)
    /\ p \in H5Glob
    /\ p \notin HasMarker
    /\ size[p] > 0
    /\ p \notin Range(parsedH5)

NoEligible == \A p \in Paths : ~Eligible(p)

\* the number of times p occurs in s
Occurrences(p, s) == Cardinality({i \in 1..Len(s) : s[i] = p})

\* a step that calls getLastH5: the constructor, or a poll of one of the waits
PollStep ==
    \/ \E da \in BOOLEAN : NewReader(da)
    \/ \E t \in 1..MaxTimeout : waitForNewFileStart(t)
    \/ waitForNewFileIter
    \/ waitForH5FileIter

\* C4: at-most-once.  Over the lifetime of the process no path is returned
\* by getLastH5 more than once, whichever reader polls and however long the
\* file stays visible: a path of the seen list parsedH5 was returned exactly
\* once and is never returned again.
C4_AtMostOnce ==
    /\ \A p \in Paths : Occurrences(p, retLog) <= 1
    /\ \A p \in Range(parsedH5) : Occurrences(p, retLog) = 1

\* C4 witness: a path was returned, and a later poll saw a file of the seen
\* list, ready and with content, and passed it over
C4_Witness ==
    /\ skipped
    /\ retLog # <<>>
    /\ \E p \in Range(parsedH5) : p \in Range(dir) /\ size[p] > 0

\* C5: a wait ends.  waitForH5File ends in sys.exit() only when more than
\* timeOutSec seconds have passed and its poll found no eligible file;
\* waitForNewFile returns the empty path only when timeout_sec seconds have
\* passed and its poll found no eligible file; a poll of a wait that finds
\* an eligible file ends the wait with that file; and every wait that was
\* started ends.
C5_WaitStep ==
    /\ (w.st = "polling" /\ w'.st = "exited") =>
           (w.kind = "h5file" /\ elapsed > w.timeout /\ NoEligible)
    /\ (w.kind = "newfile" /\ w.st = "polling" /\ w'.st = "returned"
           /\ db'.hfFile = NoFile) =>
           (elapsed' >= w.timeout /\ NoEligible)
    /\ (Waiting /\ ~NoEligible /\ (waitForNewFileIter \/ waitForH5FileIter)) =>
           (w'.st = "returned" /\ Eligible(db'.hfFile))

C5_TimeoutEndsWait ==
    /\ [][C5_WaitStep]_vars
    /\ (Waiting ~> ~Waiting)

\* C5 witness: no file was ever claimed and waitForH5File ended in the exit
C5_Witness ==
    /\ w.kind = "h5file"
    /\ w.st = "exited"
    /\ elapsed > w.timeout
    /\ parsedH5 = <<>>

\* C7: every path a call of getLastH5 returns is, at that moment, a .h5 file
\* of the watched directory without the marker CTL_XXX, of non-zero size and
\* not in the seen list; when no file is like that the call returns the
\* empty path and leaves the seen list unchanged.
C7_ClaimStep ==
    PollStep =>
        /\ db'.hfFile # NoFile =>
               (Eligible(db'.hfFile) /\ parsedH5' = Append(parsedH5, db'.hfFile))
        /\ NoEligible => (db'.hfFile = NoFile /\ parsedH5' = parsedH5)

C7_ClaimedIsEligible == [][C7_ClaimStep]_vars

\* C7 witness: a path was returned earlier, and the last poll of a wait
\* returned the empty path while the directory held a marker file with
\* content and an empty file
C7_Witness ==
    /\ w.st = "exited"
    /\ retLog # <<>>
    /\ "CTL_XXX_c.h5" \in Range(dir) /\ size["CTL_XXX_c.h5"] = 1
    /\ \E p \in Range(dir) : p \notin HasMarker /\ size[p] = 0

--------------------------------------------------------------------------
(* Claims about the command sessions, checked under SpecSession *)

\* the places in sent of the writes "ctlCfg -a reg"
WritesOf(reg) == {i \in 1..Len(sent) : sent[i].tool = "ctlCfg" /\ sent[i].arg = reg}

\* the place in sent of the status read of validPdcCfg
StatusReadAt == {i \in 1..Len(sent) : sent[i] = statusRead}

\* the status read answered with an error message or with a register not zero
StatusBad ==
    /\ status.read
    /\ \/ status.stderr
       \/ \E i \in 1..Len(status.stdout) :
             /\ status.stdout[i].name \in Range(statusToValidate)
             /\ status.stdout[i].val # 0

\* C1: validation failure aborts the run.  validPdcCfg sends the status read
\* after configuration writes; when the answer holds an error message or a
\* status register that is not zero the script is over (no recovery, the
\* validation never counts as passed) and no command of the controller or PDC
\* tools, so no measurement trigger, follows the status read.  What may
\* follow is the "kill" of the dataReader process by the destructor of
\* zynqDataTransfer.
C1_ValidationAborts ==
    /\ status.read =>
          \E i \in StatusReadAt : \E j \in 1..(i - 1) : sent[j].tool \in {"ctlCfg", "pdcCfg"}
    /\ StatusBad =>
          /\ run # "running"
          /\ cause = "validPdcCfg"
          /\ validAt = -1
          /\ \A i \in StatusReadAt : \A j \in (i + 1)..Len(sent) : ~IsDeviceCmd(sent[j])

\* C1 witness: getSpadTcrUcrCcrUsingFlag.py read a status register that is not
\* zero, ended, and its destructor sent the kill after the status read
C1_Witness ==
    /\ script = "getSpadTcrUcrCcrUsingFlag"
    /\ StatusBad /\ ~status.stderr
    /\ run = "ended"
    /\ sent # <<>> /\ sent[Len(sent)].tool = "kill"

\* a command that starts an acquisition: FSM_START, a write of FSMM with a
\* start mode that is not zero, PACK_TRG_A, a write of TRGN with its enable bit
IsAcqStart(c) ==
    \/ c = ctlCmd("FSM_START")
    \/ c = ctlCmd("PACK_TRG_A")
    \/ c.tool = "ctlCfg" /\ c.arg = "FSMM" /\ StartMode(c.val) # 0
    \/ c.tool = "ctlCfg" /\ c.arg = "TRGN" /\ Bit15(c.val) = 1

\* the measurement scripts and the validation test
MeasurementSessions ==
    {"getSpadTcrUcrCcrUsingFlag", "getDsumOnExternal", "validatePDCCommunication"}

\* C2: no start without validation.  In a measurement script and in the
\* validation test, every command that starts an acquisition is sent after
\* validPdcCfg returned normally in that session.
C2_NoStartBeforeValidation ==
    script \in MeasurementSessions =>
        \A i \in 1..Len(sent) : IsAcqStart(sent[i]) => (validAt # -1 /\ validAt < i)

\* the parameter register and the enable register of each stage of the FSM
StagePairs == {<<"FTX1", "FTX0">>, <<"ATX1", "ATX0">>, <<"SLW1", "SLW0">>,
               <<"FST1", "FST0">>}

\* the sessions that configure the FSM register by register
FsmConfigSessions == {"getDsumOnExternal", "zynqCtlPdcRoutines", "validatePDCCommunication"}

\* the FSM registers other than FSMM
StageRegs == allowed_keys \ {"FSMM"}

\* the writes of FSMM with a start mode that is not zero
StartWrites == {i \in WritesOf("FSMM") : StartMode(sent[i].val) # 0}

\* C3: order of the FSM registers.  In every session the parameter register
\* of a stage (FTX1, ATX1, SLW1, FST1) is written before the register with the
\* enable bit of that stage (FTX0, ATX0, SLW0, FST0) and not after it; a write
\* of FSMM with a start mode that is not zero comes after every write of
\* another FSM register, and in getDsumOnExternal, initExample and the
\* validation test every other FSM register has been written by then.
C3_FsmOrder ==
    LET fsmWrites == {i \in 1..Len(sent) :
                         sent[i].tool = "ctlCfg" /\ sent[i].arg \in allowed_keys}
        writesOf(reg) == {i \in fsmWrites : sent[i].arg = reg}
        startWrites == {i \in writesOf("FSMM") : StartMode(sent[i].val) # 0}
    IN  /\ \A pr \in StagePairs : \A j \in writesOf(pr[2]) :
              /\ \E i \in writesOf(pr[1]) : i < j
              /\ \A i \in writesOf(pr[1]) : i < j
        /\ \A i \in startWrites :
              /\ \A j \in fsmWrites : sent[j].arg \in StageRegs => j < i
              /\ script \in FsmConfigSessions =>
                    \A reg \in StageRegs \ {"MISC"} : \E j \in writesOf(reg) : j < i

\* C3 witness: the validation test wrote, through setupFSM, the enable bit of
\* the transmit stage and then FSMM with start mode 1
C3_Witness ==
    /\ script = "validatePDCCommunication"
    /\ StartWrites # {}
    /\ \E j \in WritesOf("FTX0") : Bit15(sent[j].val) = 1

\* the commands a step adds to sent
NewCmds == SubSeq(sent', Len(sent) + 1, Len(sent'))

\* the number of measurements triggered so far
Triggers == Cardinality({i \in 1..Len(sent) : sent[i] = ctlCmd("PACK_TRG_A")})

\* C6: a result timeout is fatal.  Once waitForH5File has timed out the
\* script is over and stays where it was: the measurement is not issued
\* again, no later SPAD is measured, and no command of the controller or PDC
\* tools is sent (the destructor of zynqDataTransfer may send its "kill").
C6_TimeoutStep ==
    cause' = "waitForH5File" =>
        /\ run' # "running"
        /\ pc' = pc
        /\ Len(sent') >= Len(sent)
        /\ SubSeq(sent', 1, Len(sent)) = sent
        /\ \A i \in 1..Len(NewCmds) : ~IsDeviceCmd(NewCmds[i])

C6_TimeoutIsFatal == [][C6_TimeoutStep]_vars

\* C6 witness: the sweep had a measurement behind it when a wait timed out
\* after the trigger of the next one; the script ended and the kill was sent
C6_Witness ==
    /\ cause = "waitForH5File"
    /\ run = "ended"
    /\ Triggers >= 2
    /\ pc < Len(Programs[script])
    /\ sent[Len(sent)].tool = "kill"
    /\ \E i \in 1..Len(sent) : sent[i] = ctlCmd("PACK_TRG_A") /\
          \A j \in (i + 1)..Len(sent) : ~IsDeviceCmd(sent[j])

--------------------------------------------------------------------------
(* Claims about the optimizer, checked under SpecOpt and SpecSession *)

\* the measurements of the call that count: an object with a TCR
ValidEntries == SelectSeq(zppData.allPdcsZppData, LAMBDA e : e.present /\ e.TCR # Sentinel)

\* the call of getZppOptimalPeriod on its own is over
OptOver == script = "none" /\ run = "ended" /\ cause \in {"returned", "ZeroDivisionError"}

\* C15: guard against zero valid channels.  When getZppOptimalPeriod is
\* given measurements none of which has a valid TCR (every entry None or with
\* TCR = -1) it does not divide by zero: it returns.
C15_NoDivisionByZero ==
    (OptOver /\ ValidEntries = <<>>) => cause # "ZeroDivisionError"

\* C16: a channel's failure is not fatal to the sweep.  When the computation
\* of the candidate period of a channel meets no valid TCR or an average TCR
\* of 0, the loop goes on: the script is never over at the call of
\* getZppOptimalPeriod.
C16_ChannelFailureNotFatal ==
    (script \in ScriptNames /\ pc <= Len(Programs[script])
        /\ Cur.f = "getZppOptimalPeriod") => run = "running"

\* every measurement of the call is an object with a TCR > 0, and there is one
AllPositive ==
    /\ zppData.allPdcsZppData # <<>>
    /\ \A i \in 1..Len(zppData.allPdcsZppData) :
          /\ zppData.allPdcsZppData[i].present
          /\ zppData.allPdcsZppData[i].TCR.n > 0

\* C17: optimizer positivity.  Given a non-empty set of measurements whose
\* TCR are all > 0, getZppOptimalPeriod returns, and the period it returns is
\* finite and > 0.
C17_Positivity ==
    (OptOver /\ AllPositive) =>
        /\ cause = "returned"
        /\ zppPrd.n > 0
        /\ zppPrd.d > 0

\* C17 witness: the call returned on three measurements with a TCR > 0, not
\* all the same
C17_Witness ==
    /\ OptOver /\ AllPositive
    /\ Len(zppData.allPdcsZppData) = MaxPdc
    /\ zppData.allPdcsZppData[1].TCR # zppData.allPdcsZppData[2].TCR
    /\ zppPrd.n > 0

\* the sum of the TCR of a sequence of measurements
RECURSIVE TcrTotal(_)
TcrTotal(es) == IF es = <<>> THEN RatInt(0) ELSE RatAdd(es[1].TCR, TcrTotal(Tail(es)))

\* C18: the formula of the optimizer.  The period getZppOptimalPeriod returns
\* is ((1/avgRate)*nSpad)/2 with avgRate the mean of the TCR of the entries
\* that are objects with a TCR other than -1: period * 2 * (sum of those TCR)
\* = nSpad * (number of those entries).  None and TCR = -1 add nothing to
\* the sum or to the number.
C18_OptimizerFormula ==
    (OptOver /\ cause = "returned") =>
        RatMul(zppPrd, RatMul(RatInt(2), TcrTotal(ValidEntries)))
            = RatInt(zppData.nSpad * Len(ValidEntries))

\* C18 witness: the call returned for nSpad = 2 on two different TCR and a
\* measurement that does not count (None or an object without TCR)
C18_Witness ==
    /\ OptOver /\ cause = "returned"
    /\ zppData.nSpad = 2
    /\ Len(ValidEntries) = 2
    /\ ValidEntries[1].TCR # ValidEntries[2].TCR
    /\ \E i \in 1..Len(zppData.allPdcsZppData) :
          zppData.allPdcsZppData[i] \in {None, Entry(Sentinel)}

--------------------------------------------------------------------------
(* Claims on the sweep over the SPADs (getSpadTcrUcrCcrUsingFlag.py:710-747) *)

\* the calls of the sweep: sweepLog after the setZppModule of line 259 and the
\* measurement with every SPAD enabled of line 706
LoopLog == SubSeq(sweepLog, 3, Len(sweepLog))

\* the k-th call of the sweep, LoopLog[k]
LoopCall(k) == sweepLog[k + 2]

\* the k-th call of the sweep is step (k-1) % 6 of the turn for SPAD (k-1) \div 6
StepOk(k) ==
    LET i == (k - 1) \div 6
        step == (k - 1) % 6
        e == LoopCall(k)
    IN  CASE step = 0 -> e.f = "setZppModule" /\ e.t = measTime
          [] step = 1 -> e.f = "measCntRate" /\ e.ch = 2^i /\ e.t = measTime
          [] step = 2 -> e.f = "getZppOptimalPeriod"
          [] step = 3 -> e.f = "setZppModule" /\ e.t = LoopCall(k - 1).t
          [] step = 4 -> /\ e.f = "measCntRate"
                         /\ e.ch = 2^i
                         /\ e.t = RatMul(LoopCall(k - 2).t, RatInt(nZppCycles))
          [] step = 5 -> e.f = "newData" /\ e.ch = i

\* the patterns of the pdcSpad commands sent after the measurement with every
\* SPAD enabled
SweepPatterns ==
    LET isPattern(c) == c.tool = "pdcSpad" /\ c.val # -1
        all == SelectSeq(sent, isPattern)
    IN  [m \in 1..Len(all) |-> all[m].val]

\* C19: the sweep visits every channel index 0..N-1 once, in ascending order.
\* In the turn for channel i both measurements use the pattern with bit i set
\* and no other, and the steps of the turn are, in this order: set the
\* default period, measure, compute the candidate period, set the candidate
\* period, measure again for period*nZppCycles, record the result for
\* channel i.  A script that reaches its last line has taken the N turns.
C19_SweepOrder ==
    script = "getSpadTcrUcrCcrUsingFlag" =>
        /\ Len(LoopLog) <= 6 * MaxSpad
        /\ \A k \in 1..Len(LoopLog) : StepOk(k)
        /\ LET all == SweepPatterns
           IN  \A m \in 1..Len(all) : all[m] = 2^((m - 1) \div 2)
        /\ (cause = "completed") =>
              /\ Len(LoopLog) = 6 * MaxSpad
              /\ Len(SweepPatterns) = 2 * MaxSpad

\* C19 witness: the script reached its last line after the turns for channel 0
\* and channel 1, each with a candidate period > 0
C19_Witness ==
    /\ script = "getSpadTcrUcrCcrUsingFlag"
    /\ cause = "completed"
    /\ Len(LoopLog) = 6 * MaxSpad
    /\ LoopLog[6].ch = 0
    /\ LoopLog[12].ch = 1
    /\ LoopLog[11].ch = 2
    /\ LoopLog[9].t.n > 0

--------------------------------------------------------------------------
(* Claims on setPdcTimeReg (pdcHelper.py:151-159) *)

\* C20: round trip of setPdcTimeReg.  For hold in 0..63, rech in 0..31 and
\* flag in 0..31, the word the encoder returns gives back each field when it
\* is shifted by the offset of the field and masked to its width: hold from
\* bit 0 (6 bits), rech from bit 6 (5 bits), flag from bit 11 (5 bits).
C20_RoundTrip ==
    (/\ REG # -1
     /\ timeArgs.hold \in 0..63
     /\ timeArgs.rech \in 0..31
     /\ timeArgs.flag \in 0..31) =>
        /\ FieldOf(REG, 0, 6) = timeArgs.hold
        /\ FieldOf(REG, 6, 5) = timeArgs.rech
        /\ FieldOf(REG, 11, 5) = timeArgs.flag

\* C20 witness: the call returned for fields in which the bits next to the
\* borders of the fields are set: hold = 32 + 1, rech = 16 + 1, flag = 16 + 1
C20_Witness ==
    /\ REG # -1
    /\ timeArgs = [hold |-> 33, rech |-> 17, flag |-> 17]
    /\ REG = 33 + 17 * 64 + 17 * 2048

--------------------------------------------------------------------------
(* Claims on the packing of the register words *)

\* the word of a register of the model has been computed
Packed == packArgs.reg \in PackRegs /\ regWord # -1

\* C21: truncation.  A value that exceeds the width of its field (or is
\* negative) is stored as value mod 2^width in that field, and every other
\* field of the word holds its own value mod 2^width; this holds for
\* setPdcTimeReg and for the packings of the FSM registers.  The delay
\* nAcqSamplesFast - nAcqSamplesHistory = -28 of FST0 is stored as 228.
C21_Truncation ==
    /\ Packed =>
          \A i \in 1..Len(LayoutOf(packArgs.reg)) :
              FieldOf(regWord, LayoutOf(packArgs.reg)[i].o, LayoutOf(packArgs.reg)[i].w)
                  = packArgs.vals[i] % 2^(LayoutOf(packArgs.reg)[i].w)
    /\ PackWord(FsmLayout["FST0"], <<0, 2, 0 - 28>>) = fst0Reg
    /\ FieldOf(fst0Reg, 0, 8) = 228

\* C21 witness: FST0 was packed with the delay -28 and a mode beyond 3 bits
C21_Witness ==
    /\ Packed
    /\ packArgs = [reg |-> "FST0", vals |-> <<1, 255, -28>>]
    /\ regWord = 32768 + 7 * 256 + 228

\* C22: for all integers hold, rech and flag, setPdcTimeReg returns
\* (hold & 0x3F) | ((rech & 0x1F) << 6) | ((flag & 0x1F) << 11), a word of
\* 0..0xFFFF; for hold = 50, rech = 10, flag = 2 it is 50 + 10*64 + 2*2048.
C22_TimeRegLayout ==
    /\ REG # -1 =>
          /\ REG = BitOr(BitOr(Low(timeArgs.hold, 6), Shl(Low(timeArgs.rech, 5), 6)),
                         Shl(Low(timeArgs.flag, 5), 11))
          /\ REG \in 0..65535
    /\ setPdcTimeReg(50, 10, 2) = 50 + 10 * 64 + 2 * 2048

\* C22 witness: the call returned for a negative hold, a rech beyond 5 bits
\* and a flag beyond 5 bits
C22_Witness ==
    /\ timeArgs = [hold |-> -1, rech |-> 100, flag |-> 2047]
    /\ REG = 63 + 4 * 64 + 31 * 2048

\* the bits a field occupies
BitsOf(fld) == fld.o .. (fld.o + fld.w - 1)

\* vals with every value but the i-th replaced by 0
Only(vals, i) == [k \in 1..Len(vals) |-> IF k = i THEN vals[k] ELSE 0]

\* the words the script computes (getDsumOnExternal.py:143-270) are the
\* packings of its values in these layouts
ScriptWordsAgree ==
    /\ PackWord(FsmLayout["TOUT"], <<0, 1, 1, 48>>) = toutReg
    /\ PackWord(FsmLayout["FEND"], <<1, 2, 0>>) = fendReg
    /\ PackWord(FsmLayout["FTX1"], <<0, 0, 128>>) = ftx1Reg
    /\ PackWord(FsmLayout["FTX0"], <<1, 1, 2, 0>>) = ftx0Reg
    /\ PackWord(FsmLayout["ATX1"], <<0, 0, 0>>) = atx1Reg
    /\ PackWord(FsmLayout["ATX0"], <<0, 0, 0, 0>>) = atx0Reg
    /\ PackWord(FsmLayout["SLW1"], <<0, 128>>) = slw1Reg
    /\ PackWord(FsmLayout["SLW0"], <<1, 2, 100>>) = slw0Reg
    /\ PackWord(FsmLayout["FST1"], <<0>>) = fst1Reg
    /\ PackWord(FsmLayout["FACQ"], <<0, 0, 0, 7>>) = facqReg
    /\ PackWord(FsmLayout["FSMM"], <<1, 1, 0>>) = fsmmReg

\* C23: the fields of one FSM register never overlap.  For TOUT, FEND, FTX1,
\* FTX0, ATX1, ATX0, SLW1, SLW0, FST1, FST0, FACQ and FSMM the fields occupy
\* pairwise disjoint bits within bits 0..15, so for all values the word is
\* in 0..0xFFFF and each field reads back what it would hold with every
\* other field at 0.
C23_FieldsDisjoint ==
    /\ ScriptWordsAgree
    /\ \A r \in FsmRegs : \A i, j \in 1..Len(FsmLayout[r]) :
          /\ BitsOf(FsmLayout[r][i]) \subseteq 0..15
          /\ i # j => BitsOf(FsmLayout[r][i]) \cap BitsOf(FsmLayout[r][j]) = {}
    /\ (Packed /\ packArgs.reg \in FsmRegs) =>
          /\ regWord \in 0..65535
          /\ \A i \in 1..Len(FsmLayout[packArgs.reg]) :
                FieldOf(regWord, FsmLayout[packArgs.reg][i].o, FsmLayout[packArgs.reg][i].w)
                    = FieldOf(PackWord(FsmLayout[packArgs.reg], Only(packArgs.vals, i)),
                              FsmLayout[packArgs.reg][i].o, FsmLayout[packArgs.reg][i].w)

\* C23 witness: the four fields of FACQ were packed with every bit set
C23_Witness ==
    /\ Packed
    /\ packArgs = [reg |-> "FACQ", vals |-> <<1, 255, 255, 7>>]
    /\ regWord = 32768 + 127 * 256 + 15 * 16 + 7

--------------------------------------------------------------------------
(* Claims on the export of the sweep (zppPlotter.saveData) *)

\* C25: the sweep export keeps the sentinel.  Each of TCR, UCR and CCR that
\* is not available for a channel (-1 in the object) is written as -1, and
\* a channel that was never measured is written with TCR, UCR and CCR all -1.
C25_SentinelExported ==
    csv.written =>
        /\ zpp.TCR = Sentinel => csv.TCR = Sentinel
        /\ zpp.UCR = Sentinel => csv.UCR = Sentinel
        /\ zpp.CCR = Sentinel => csv.CCR = Sentinel
        /\ zpp = NewZpp => (csv.TCR = Sentinel /\ csv.UCR = Sentinel /\ csv.CCR = Sentinel)

--------------------------------------------------------------------------
(* Claims on tcrPlotter.newData *)

\* a call of newData with a negative (sentinel) average has just been made
TcrInvalidCall == tp'.n = tp.n + 1 /\ tp'.last.avg < 0

\* C24: an invalid reading is never used to disable a channel.  A call of
\* tcrPlotter.newData with a negative (sentinel) average leaves the enable
\* mask spadEn of every PDC as it was.
C24_SentinelKeepsMask == [][TcrInvalidCall => tp'.spadEn = tp.spadEn]_vars

--------------------------------------------------------------------------
(* Claims on the interruption of a script *)

\* C26: an external interrupt (KeyboardInterrupt) that arrives at a blocking
\* wait of a script makes the script send the device-stop command before the
\* process exits: a process that has ended on a KeyboardInterrupt has sent
\* "stop".
C26_InterruptSendsStop ==
    (run = "ended" /\ cause = "KeyboardInterrupt") =>
        \E i \in 1..Len(sent) : sent[i].tool = "stop"

--------------------------------------------------------------------------
(* Claims on the setup errors *)

\* the tools that write the configuration of the PDCs
PdcWriteTools == {"pdcCfg", "pdcTime", "pdcPix", "pdcSpad"}

\* the commands of a measurement: acquisition mode, reset of the ZPP module,
\* the trigger of a data packet, the start of the FSM
MeasurementCmds == {ctlCmd("MODE_ACQ"), ctlCmd("RSTN_ZPP"), ctlCmd("PACK_TRG_A"),
                    ctlCmd("FSM_START")}

\* no PDC configuration write and no measurement command has been sent
NothingMeasured ==
    \A i \in 1..Len(sent) :
        sent[i].tool \notin PdcWriteTools /\ sent[i] \notin MeasurementCmds

\* the mask checkPowerGood read does not cover every PDC the user enabled
PowerGoodFailed ==
    icp.pwrGood # -1 /\ BitAnd(icp.pwrGood, icp.pdcEnUser) # icp.pdcEnUser

--------------------------------------------------------------------------
(* Claims on the protocol of a measurement *)

\* in cmds the pattern of the enabled channels, a mode command and RSTN_ZPP
\* come, in this order, before every PACK_TRG_A
ProtocolOrder(cmds) ==
    \A t \in 1..Len(cmds) :
        cmds[t] = ctlCmd("PACK_TRG_A") =>
            \E p, m, z \in 1..Len(cmds) :
                /\ p < m /\ m < z /\ z < t
                /\ cmds[p].tool \in {"pdcSpad", "pdcPix"}
                /\ cmds[m] \in {ctlCmd("MODE_ACQ"), ctlCmd("MODE_TRG")}
                /\ cmds[z] = ctlCmd("RSTN_ZPP")

\* the commands of a measurement: acquisition mode, reset of the ZPP
\* statistics, request of the data packet
AcqModeCmd == ctlCmd("MODE_ACQ")
ResetZppCmd == ctlCmd("RSTN_ZPP")
TriggerCmd == ctlCmd("PACK_TRG_A")

\* the commands of measTrgRate and of measCntRate, for every pattern of the
\* sweep, are in the protocol order
RoutinesInOrder ==
    /\ ProtocolOrder(measTrgRateCmds(0))
    /\ \A iSPAD \in 0..(MaxSpad - 1) : ProtocolOrder(measCntRateCmds(Shl(1, iSPAD)))

\* the script runs and is inside a measurement, after the commands were sent
AfterTrigger ==
    /\ script = "getSpadTcrUcrCcrUsingFlag"
    /\ run = "running"
    /\ pc <= Len(Programs[script])
    /\ Cur.f \in {"waitForH5File", "getPdcZPP"}

--------------------------------------------------------------------------
(* Claims on the file a measurement reads (h5Reader.py:218-242,
   getSpadTcrUcrCcrUsingFlag.py:608-682) *)

\* the wait of a measurement returns a file in this step
WaitReturns ==
    /\ script = "getSpadTcrUcrCcrUsingFlag"
    /\ AfterTrigger
    /\ w.st = "polling"
    /\ w'.st = "returned"

\* C29: the file the wait after PACK_TRG_A returns was made in response to
\* the trigger of this measurement: it is never a file that lay complete in
\* the directory when the trigger was sent (a file left from an earlier run,
\* or a second file made for an earlier trigger).
C29_FreshArtifact ==
    [][WaitReturns => db'.hfFile \notin sweepLog[Len(sweepLog)].had]_vars

--------------------------------------------------------------------------
(* Claims on the registers of the ZPP module (getSpadTcrUcrCcrUsingFlag.py:
   243-262, 710-738) *)

\* the command at place i of sent writes register r of the controller
Writes(i, r) == sent[i].tool = "ctlCfg" /\ sent[i].arg = r

\* the value of register r after the first k commands of sent; 0 when no
\* command has written it (the registers after RSTN_FULL)
RegAfter(r, k) ==
    LET at == {i \in 1..k : Writes(i, r)}
    IN  IF at = {} THEN 0 ELSE sent[Max(at)].val

\* the timer registers of the ZPP module after the first k commands
ZppTimers(k) == <<RegAfter("ZPH0", k), RegAfter("ZPH1", k), RegAfter("ZPL0", k)>>

\* the enable bit of ZPL1 after the first k commands
ZppEnabled(k) == BitAnd(RegAfter("ZPL1", k), 32768) = 32768

\* after the first k commands the timer registers hold neither what they held
\* when ZPL1 was last written nor what they hold when ZPL1 is written next
ZppPartial(k) ==
    LET before == {i \in 1..k : Writes(i, "ZPL1")}
        after == {i \in (k + 1)..Len(sent) : Writes(i, "ZPL1")}
    IN  /\ before # {} => ZppTimers(k) # ZppTimers(Max(before))
        /\ after # {} => ZppTimers(k) # ZppTimers(Min(after))
        /\ before # {} \/ after # {}

\* C30: the ZPP module is never active with a partial configuration: after
\* every command of the session, the enable bit 0x8000 of ZPL1 is not set
\* while ZPH0, ZPH1 and ZPL0 hold a mixture of old and new values, for the
\* first call of setZppModule and for every later one of the sweep.
C30_NoPartialZpp ==
    script = "getSpadTcrUcrCcrUsingFlag" =>
        \A k \in 1..Len(sent) :
            (sent[k].tool = "ctlCfg" /\ sent[k].arg \in {"ZPH0", "ZPH1", "ZPL0"})
                => ~(ZppEnabled(k) /\ ZppPartial(k))

--------------------------------------------------------------------------
(* Claims on the status read of validPdcCfg (zynqCtlPdcRoutines.py:279-323) *)

\* C31: validPdcCfg returns normally only if each of the seven registers of
\* statusToValidate appeared in the answer of the status read and was read as
\* zero; an answer in which one of them is missing ends the run, whatever
\* other lines, repeated lines included, the answer holds.
C31_EveryFlagSeen ==
    validAt # -1 =>
        \A k \in 1..Len(statusToValidate) :
            \E i \in 1..Len(status.stdout) :
                status.stdout[i] = [name |-> statusToValidate[k], val |-> 0]

--------------------------------------------------------------------------
(* Claims on the routines of initCtlPdcFromClient and of pdc_setting that
   build commands, checked under SpecCall *)

\* the places of cfg_dict with a name setupFSM accepts
Allowed(cfg_dict) == {i \in 1..Len(cfg_dict) : cfg_dict[i][1] \in allowed_keys}

\* setupFSM was called and returned
SetupFsmDone == callArgs.f = "setupFSM" /\ callOut.done

\* C32: setupFSM sends one register write for every entry of cfg_dict whose
\* name is in allowed_keys, in the order of the entries of cfg_dict; an entry
\* with another name is skipped and neither prevents nor reorders the writes
\* of the other entries.
C32_SetupFsmWrites ==
    SetupFsmDone =>
        LET cfg_dict == callArgs.args[1]
            ok == Allowed(cfg_dict)
        IN  /\ Len(callOut.cmds) = Cardinality(ok)
            /\ \A i \in ok :
                  callOut.cmds[Cardinality({j \in ok : j <= i})]
                      = ctlCfg(cfg_dict[i][1], cfg_dict[i][2])
            /\ ~callOut.exits

\* C32 witness: a dictionary whose second entry is not accepted, between two
\* entries that are; the two writes were sent in the order of the dictionary
C32_Witness ==
    /\ SetupFsmDone
    /\ callArgs.args[1] = <<<<"FSMM", 273>>, <<"ZPH0", 0>>, <<"TOUT", 0>>>>
    /\ callOut.cmds = <<ctlCfg("FSMM", 273), ctlCfg("TOUT", 0)>>

\* the bank setCtlPacket was not called for
OtherBank(name) == IF name = "A" THEN "B" ELSE "A"

\* the value of a field of the selected bank after a call with argument arg
FieldAfter(arg, before) == IF arg = NoArg THEN before ELSE arg

\* C33: setCtlPacket(bank, SCS, SCD, SPD) changes only the stored settings
\* of the selected bank, and of these only the fields whose argument is not
\* None; the stored settings of the other bank are unchanged; the three
\* values sent, SCS first, then SCD, then SPD, are the stored values of the
\* selected bank after the call.  Checked after every sequence of calls.
C33_PacketFrame ==
    pack.n > 0 =>
        LET sel == pack.last.bank
            now == pack[sel]
            before == pack.old[sel]
        IN  /\ pack[OtherBank(sel)] = pack.old[OtherBank(sel)]
            /\ now.SCS = FieldAfter(pack.last.SCS, before.SCS)
            /\ now.SCD = FieldAfter(pack.last.SCD, before.SCD)
            /\ now.SPD = FieldAfter(pack.last.SPD, before.SPD)
            /\ pack.cmds = <<ctlCfg("SCS" \o sel, now.SCS),
                             ctlCfg("SCD" \o sel, now.SCD),
                             ctlCfg("SPD" \o sel, now.SPD)>>

\* C33 witness: after SPD of bank A was set to 0x00F7 and bank B was
\* written, a call for bank A with SCS = 0 and no other argument sent the
\* SPD stored before
C33_Witness ==
    /\ pack.n = 3
    /\ pack.last = [bank |-> "A", SCS |-> 0, SCD |-> NoArg, SPD |-> NoArg]
    /\ pack.B.SCD = 247
    /\ pack.cmds = <<ctlCfg("SCSA", 0), ctlCfg("SCDA", 0), ctlCfg("SPDA", 247)>>

--------------------------------------------------------------------------
(* Claims on the enable mask and the populations of tcrPlotter *)

\* a call of newData with a valid average has just been made
TcrValidCall == tp'.n = tp.n + 1 /\ tp'.last.avg >= 0

\* bit iSpad of the enable mask of PDC iPdc in the plotter p
EnBit(p, iPdc, iSpad) == Low(Shr(p.spadEn[iPdc], iSpad), 1)

\* C34: after any sequence of calls of newData, a call newData(iPdc, iSpad,
\* avg, avgTh) with a valid avg greater than avgTh leaves bit iSpad of
\* spadEn[iPdc] cleared, and a call with a valid avg not greater than avgTh
\* leaves it set, whatever the earlier calls were.
C34_BitFollowsThreshold ==
    [][TcrValidCall =>
          EnBit(tp', tp'.last.iPdc, tp'.last.iSpad)
              = (IF tp'.last.avg > tp'.last.avgTh THEN 0 ELSE 1)]_vars

\* q is in ascending order
Ascending(q) == \A i \in 1..(Len(q) - 1) : q[i] <= q[i + 1]

\* how many times v is in q
CountIn(q, v) == Cardinality({i \in 1..Len(q) : q[i] = v})

\* the sum of f[x] for the x of S
RECURSIVE SumOf(_, _)
SumOf(f, S) ==
    IF S = {} THEN 0
    ELSE LET x == CHOOSE y \in S : TRUE
         IN  f[x] + SumOf(f, S \ {x})

\* the valid averages of the model
ValidAvgs == {v \in AvgValues : v >= 0}

\* the populations of the plotter p are sorted and hold the valid averages
\* passed so far, each as often as it was passed
PopulationsOk(p) ==
    /\ \A iPdc \in TcrPdcs :
          /\ Ascending(p.spadPop[iPdc])
          /\ \A i \in 1..Len(p.spadPop[iPdc]) : p.spadPop[iPdc][i] \in ValidAvgs
          /\ \A v \in ValidAvgs : CountIn(p.spadPop[iPdc], v) = p.given[iPdc][v]
    /\ Ascending(p.spadCumulHis)
    /\ \A i \in 1..Len(p.spadCumulHis) : p.spadCumulHis[i] \in ValidAvgs
    /\ \A v \in ValidAvgs :
          CountIn(p.spadCumulHis, v) = SumOf([iPdc \in TcrPdcs |-> p.given[iPdc][v]], TcrPdcs)
    /\ Len(p.spadCumulHis) = SumOf([iPdc \in TcrPdcs |-> Len(p.spadPop[iPdc])], TcrPdcs)

\* C35: after any sequence of calls of newData, every spadPop[iPdc] and
\* spadCumulHis are in ascending order and hold exactly the valid
\* (non-negative) averages passed so far, for that PDC and for all PDCs;
\* spadCumulHis is as long as all the spadPop together.  An invalid reading
\* adds nothing to a population and does not change spadTcr.
C35_Populations ==
    [][/\ PopulationsOk(tp')
       /\ TcrInvalidCall =>
             /\ tp'.spadPop = tp.spadPop
             /\ tp'.spadCumulHis = tp.spadCumulHis
             /\ tp'.spadTcr = tp.spadTcr]_vars

\* C35 witness: three calls for PDC 0, with the average 2, then an invalid
\* reading, then the average 1: the populations hold 1 and 2, in this order
C35_Witness ==
    /\ tp.n = 3
    /\ tp.last.avg = 1
    /\ tp.last.iPdc = 0
    /\ tp.spadPop[0] = <<1, 2>>
    /\ tp.spadCumulHis = <<1, 2>>

\* a poll of this step claimed a file
Claimed == retLog' # retLog

\* a second h5Close (the destructor runs one) would leave reader r and
\* directory d as they are
ClosedForGood(r, d) == ReaderAfterClose(r, d) = r /\ DirAfterClose(r, d) = d

\* C36: a poll that claims a file stores its path in hfFile and opens nothing;
\* a handle is opened only by h5Open on a reader that has none; h5Close
\* leaves no handle and, with deleteAfter, removes the claimed file and
\* clears hfFile; a second h5Close would change nothing; a path once seen
\* stays seen and is not claimed a second time
C36_Lifecycle ==
    [][/\ Claimed => /\ db'.hfFile = retLog'[Len(retLog')]
                     /\ db'.hfFile \notin Range(parsedH5)
                     /\ db'.h5 => db.h5
       /\ (db'.h5 /\ ~db.h5) => h5Open
       /\ h5Close => /\ ~db'.h5
                     /\ db.deleteAfter => /\ db'.hfFile = NoFile
                                          /\ db.hfFile \notin Range(dir')
                     /\ ClosedForGood(db', dir')
       /\ Range(parsedH5) \subseteq Range(parsedH5')]_vars

\* a reader with deleteAfter has claimed a file and closed it: the file is
\* gone, hfFile is cleared and the path is still in the seen list
C36_Witness ==
    /\ db.deleteAfter /\ ~db.h5 /\ db.hfFile = NoFile
    /\ retLog # <<>>
    /\ retLog[Len(retLog)] \notin Range(dir)
    /\ retLog[Len(retLog)] \in Range(parsedH5)

\* a write of a PDC register: pdcCfg -a REG -r value, or pdcTime with the
\* three times (pdcTime -g alone reads the register)
PdcRegWrite(c) == c.tool = "pdcCfg" \/ (c.tool = "pdcTime" /\ c.arg # "-g")

\* the arguments of pdcPix that hold '--mode NONE'
PixKeepsMode == {"--dis --mode NONE", "--dis --index iPix --mode NONE"}

\* a command that returns the PDCs to acquisition mode
LeavesCfgMode(c) ==
    c = ctlCmd("MODE_ACQ") \/ (c.tool = "pdcPix" /\ c.arg \notin PixKeepsMode)

\* C37: every pdcCfg and pdcTime write of the session comes after a MODE_CFG
\* command with no MODE_ACQ and no pdcPix without '--mode NONE' between the
\* two
C37_WritesInCfgMode ==
    \A k \in 1..Len(sent) :
        PdcRegWrite(sent[k]) =>
            \E m \in 1..(k - 1) :
                /\ sent[m] = ctlCmd("MODE_CFG")
                /\ \A j \in (m + 1)..(k - 1) : ~LeavesCfgMode(sent[j])

\* some PDC 0..15 is enabled in the mask
LowEnabled(pdcEnUser) == BitAnd(pdcEnUser, 65535) # 0

\* some PDC 16..31 is enabled in the mask (the split preparePDC makes,
\* zynqCtlPdcRoutines.py:211)
HighEnabled(pdcEnUser) == BitAnd(Shr(pdcEnUser, 16), 65535) # 0

\* the power-good bits the enabled PDCs need: bit 0 for the first adaptor,
\* bit 1 for the second
Required(pdcEnUser) ==
    (IF LowEnabled(pdcEnUser) THEN 1 ELSE 0) + (IF HighEnabled(pdcEnUser) THEN 2 ELSE 0)

\* C38: for the setup of 32 PDCs setCfgRtnEn ends the script exactly when the
\* answer of "rtnEn -s" lacks a required bit: bit 0 is required exactly when
\* some PDC 0..15 is enabled, bit 1 exactly when some PDC 16..31 is
C38_PowerGoodSplit ==
    (callArgs.f = "setCfgRtnEn" /\ callArgs.args[1] = 32 /\ callOut.done) =>
        LET need == Required(callArgs.args[2])
        IN  callOut.exits <=> BitAnd(callArgs.args[4], need) # need

\* the places of cmds that write register reg
WritesTo(cmds, reg) ==
    {i \in 1..Len(cmds) : cmds[i].tool = "pdcCfg" /\ cmds[i].arg = reg}

\* C39: apply sends one write for every register of the pdc_setting object,
\* TIME included, with the value the object holds, and nothing else
C39_ApplyWritesAll ==
    (callArgs.f = "apply" /\ callOut.done) =>
        /\ Len(callOut.cmds) = Cardinality(PdcRegs)
        /\ \A reg \in PdcRegs :
              /\ Cardinality(WritesTo(callOut.cmds, reg)) = 1
              /\ \A i \in WritesTo(callOut.cmds, reg) :
                    callOut.cmds[i].val = callArgs.args[1][reg]

\* process() returned and stored a CCR that is not the sentinel
CcrReported == zpc = "done" /\ zpp.CCR # Sentinel

\* C40: a CCR that process() reports and that is not the sentinel lies in
\* 0 <= CCR < 1, and the rates it was computed from satisfy 0 < UCR <= TCR
C40_CcrRange ==
    CcrReported =>
        /\ zpp.CCR.n >= 0
        /\ zpp.CCR.n < zpp.CCR.d
        /\ zpp.UCR.n > 0
        /\ ~RatGt(zpp.UCR, zpp.TCR)

\* C40 witness: process() stored a CCR strictly between 0 and 1
C40_Witness == CcrReported /\ zpp.CCR.n > 0 /\ zpp.UCR # Sentinel

======================================================================
